---- MODULE Spec2Model ----
(***************************************************************************)
(* Device-session engine of adb-compass: the scrcpy session manager (NAL   *)
(* extraction, parameter-set caches, viewer sync, session registry), the   *)
(* logcat multiplexer, the device tracker, the process runner and the      *)
(* process-exit handler, as state machines translated from src-tauri/src.  *)
(***************************************************************************)
EXTENDS Integers, Sequences, FiniteSets, TLC

(***************************************************************************)
(* Bounds of the model.                                                    *)
(***************************************************************************)
\* NAL units the scrcpy server sends on one video socket
MaxUnits == 2
\* bytes of one NAL unit after its start code
MaxPayload == 2
\* scrcpy session objects (start_server calls that reach the registry)
MaxSessions == 2

None == -1

Min(S) == CHOOSE x \in S : \A y \in S : x <= y

\* [a, b) of a 0-indexed byte vector held as a 1-indexed sequence
Slice(data, a, b) == SubSeq(data, a + 1, b)

(***************************************************************************)
(* services/scrcpy.rs: H.264 Annex-B NAL extraction (pure functions).      *)
(***************************************************************************)

\* the closure find_start with the 4-byte start code left out
find_start_3only(data) ==
    LET n == Len(data)
        hits == { i \in 0..(n - 4) :
                    data[i + 1] = 0 /\ data[i + 2] = 0 /\ data[i + 3] = 1 }
    IN  IF hits = {} THEN None ELSE Min(hits)

\* for i in 0..data.len().saturating_sub(3): first i with 00 00 01 or 00 00 00 01
find_start(data) ==
    LET n == Len(data)
        hits == { i \in 0..(n - 4) :
                    /\ data[i + 1] = 0
                    /\ data[i + 2] = 0
                    /\ \/ data[i + 3] = 1
                       \/ (n > i + 3 /\ data[i + 3] = 0 /\ data[i + 4] = 1) }
    IN  IF hits = {} THEN None ELSE Min(hits)

\* prefix_len: 4 when the buffer starts 00 00 00 01, else 3
prefix_len(buf) ==
    IF Len(buf) > 3 /\ buf[3] = 0 /\ buf[4] = 1 THEN 4 ELSE 3

\* extract_next_nal returning the unit without its start code prefix
extract_next_nal_payload_only(nal_buffer) ==
    LET start_idx == find_start(nal_buffer)
    IN  IF start_idx = None
        THEN [nal |-> <<>>, buf |-> nal_buffer]
        ELSE LET drained == Slice(nal_buffer, start_idx, Len(nal_buffer))
                 p       == prefix_len(drained)
                 offset  == find_start(Slice(drained, p, Len(drained)))
             IN  IF offset = None
                 THEN [nal |-> <<>>, buf |-> drained]
                 ELSE [nal |-> Slice(drained, p, p + offset),
                       buf |-> Slice(drained, p + offset, Len(drained))]

\* extract_next_nal(&mut nal_buffer) -> Option<Vec<u8>>: the returned unit
\* (<<>> for None) and the buffer it leaves behind
extract_next_nal(nal_buffer) ==
    LET start_idx == find_start(nal_buffer)
    IN  IF start_idx = None
        THEN [nal |-> <<>>, buf |-> nal_buffer]
        ELSE LET drained == Slice(nal_buffer, start_idx, Len(nal_buffer))
                 p       == prefix_len(drained)
                 offset  == find_start(Slice(drained, p, Len(drained)))
             IN  IF offset = None
                 THEN [nal |-> <<>>, buf |-> drained]
                 ELSE [nal |-> Slice(drained, 0, p + offset),
                       buf |-> Slice(drained, p + offset, Len(drained))]

\* decode_and_stream: the NAL type the cache update sees; None when the
\* guard nal_data.len() > 4 skips the classification
nal_type(nal_data) ==
    IF Len(nal_data) > 4
    THEN LET nal_type_byte == IF nal_data[3] = 0 /\ nal_data[4] = 1
                              THEN nal_data[5] ELSE nal_data[4]
         IN  nal_type_byte % 32
    ELSE None

(***************************************************************************)
(* State.                                                                  *)
(***************************************************************************)
Devices == {"d1", "d2"}
Sessions == 1..MaxSessions
NoSession == 0

VARIABLES
    \* services/scrcpy.rs
    sessions,        \* SCRCPY_SESSIONS: device id -> session object (0: absent)
    session_dev,     \* the device a session object was started for
    streaming,       \* ScrcpySession.streaming, shared with the reader thread
    server_process,  \* the adb shell child running the scrcpy server
    last_sps,        \* ScrcpySession.last_sps (<<>>: None)
    last_pps,        \* ScrcpySession.last_pps
    last_idr,        \* ScrcpySession.last_idr
    rpc,             \* position of the decode_and_stream thread of a session
    socket,          \* bytes the video socket will still deliver
    peer,            \* far end of the video socket: open, closed, reset
    nal_buffer,      \* decode_and_stream's accumulator
    nal_data,        \* the NAL unit the thread extracted last
    frames,          \* events emitted on scrcpy-frame-<device>, in order
    units,           \* the NAL units the server wrote to the video socket
    \* adb/executor.rs, adb/client.rs: one call of the process runner
    run_impl,        \* "AdbExecutor" (run_with_retry) or "AdbClient" (execute_with_config)
    retries,         \* the call's retries argument
    attempt,         \* loop variable of for attempt in 0..=retries
    run_pc,          \* position of the call
    children,        \* state of the child of every attempt that spawned one
    attempt_result,  \* Result<Output, AppError> of the attempt that just ended
    attempt_log,     \* what ended each attempt so far and what it returned
    last_error,      \* run_with_retry's last_error
    run_result,      \* what the call returned (once run_pc = "done")
    \* adb/tracker.rs
    running,         \* DeviceTrackerState.running
    last_devices,    \* the shared last snapshot (Arc<Mutex<Vec<DeviceInfo>>>)
    world,           \* what adb devices -l would report now
    world_changes,   \* how often the connected devices changed so far
    wpc,             \* position of each tracker worker: reader, heartbeat
    listed,          \* the devices a worker's list_devices call returned
    since_emit,      \* "ge": at least DEBOUNCE_MS since last_emit_time, else "lt"
    track_child,     \* the adb track-devices child the reader spawned last
    device_events,   \* the device-changed events emitted, in order
    \* commands/logcat.rs
    streams,         \* LogcatState.streams: device -> child (0: no entry)
    logcat_call,     \* the start_logcat_stream call that holds the streams mutex
    lchild,          \* every adb logcat child spawned so far: device and state
    lpipe,           \* lines a child has written that its reader has not read
    lwritten,        \* lines the children have written so far, all together
    lreader,         \* the reader thread of a child: none, running, done
    lbatch,          \* batch.len() of a reader
    logcat_events,   \* the logcat-line-<device> events emitted, in order
    \* services/scrcpy.rs: the calls into the session registry
    sessions_lock,   \* who holds the SCRCPY_SESSIONS mutex
    sync_call,       \* the frame of every sync_session call
    sync_events,     \* the events emitted on scrcpy-sync-<label>-<device> channels
    start_call,      \* the frame of the start_server call in progress
    stop_call,       \* the frame of the stop_server call in progress
    \* lib.rs
    app_phase,       \* running, drained, returned (Exit handler), exited
    \* commands/scrcpy.rs, services/scrcpy.rs: control messages
    control,         \* bytes written to a session's control socket, not yet read
    touch_call,      \* the arguments and the result of the last scrcpy_touch call
    \* adb/agent_manager.rs
    agent_call,      \* the frame of every AgentManager call
    agent_conns,     \* every TcpStream to 127.0.0.1:12345 opened so far, in order
    \* adb/executor.rs: parse_devices_output
    devices_output,  \* the text handed to parse_devices_output, character by character
    devices_results, \* what each parse of that text returned, in order
    \* adb/command_builder.rs
    builder,         \* the AdbCommandBuilder under construction and its device_id
    built,           \* the command of the last build call and the arguments it returned
    \* adb/client.rs, adb/executor.rs: one attempt and the pipes of its child
    proc_pc,         \* position of wait_for_process / run_with_timeout
    proc_child,      \* the child: its state, the writes it makes, how far it got
    proc_pipes,      \* bytes in the stdout and stderr pipes nobody has read yet
    proc_clock,      \* time since the child was spawned, in ticks
    proc_result,     \* what the attempt returned
    \* adb/tracker.rs: the tracker's clocks
    now,             \* Instant::now(), in ticks of TickMs since the tracker started
    last_emit_time,  \* run_tracker's last_emit_time
    last_event_time, \* when the last device-changed event was emitted
    line_seen,       \* the track-devices line the reader handled last, and what it did
    hb_wait,         \* the heartbeat's current wait: snapshot seen, seconds, start
    \* services/scrcpy.rs: start_server between the spawn and the registry insert
    conn_pc,         \* position of start_server in its two connect loops
    conn_attempt,    \* _attempt of for _attempt in 1..=10 (0: before the loop)
    video_connects,  \* TcpStream::connect calls of the video loop that returned Ok
    video_peer,      \* far end of the connection of the current attempt
    video_socket,    \* video_socket: Option<TcpStream> ("none" / "some")
    control_tries,   \* iterations of for _ in 0..5 started so far
    control_socket,  \* control_socket: Option<TcpStream> ("none" / "some")
    conn_result,     \* what start_server returned from this phase, if it did
    \* commands/logcat.rs: the reader thread of one stream, line by line
    lg_pc,           \* "running" in for line in reader.lines(), "done" after the final flush
    lg_todo,         \* the lines the child still has to deliver
    lg_read,         \* the lines the reader got as Ok(text), in order
    batch,           \* the reader's batch: Vec<String>
    last_emit,       \* the reader's last_emit, in ticks
    lg_now,          \* Instant::now(), in ticks since the thread started
    lg_batches,      \* the payloads emitted on logcat-line-<device>, in order
    \* services/scrcpy.rs: send_control_event called from several threads
    send_call,       \* the frame of each thread's send_control_event call
    wire,            \* every byte written to a session's control socket, in order
    send_log         \* the calls that have returned, in the order they returned

readerVars == <<rpc, socket, peer, nal_buffer, nal_data, frames, units>>
cacheVars == <<last_sps, last_pps, last_idr>>
sessionVars == <<sessions, session_dev, streaming, server_process>>
scrcpyVars == <<sessionVars, cacheVars, readerVars>>

runnerVars == <<run_impl, retries, attempt, run_pc, children, attempt_result,
                attempt_log, last_error, run_result>>

trackerVars == <<running, last_devices, world, world_changes, wpc, listed, since_emit,
                 track_child, device_events>>

logcatVars == <<streams, logcat_call, lchild, lpipe, lwritten, lreader, lbatch, logcat_events>>

callVars == <<start_call, stop_call>>
serviceVars == <<sessions_lock, sync_call, sync_events, callVars>>
appVars == <<app_phase>>
controlVars == <<control, touch_call>>
agentVars == <<agent_call, agent_conns>>
parseVars == <<devices_output, devices_results>>
builderVars == <<builder, built>>
pipeVars == <<proc_pc, proc_child, proc_pipes, proc_clock, proc_result>>
timedVars == <<now, last_emit_time, last_event_time, line_seen, hb_wait>>
connectVars == <<conn_pc, conn_attempt, video_connects, video_peer, video_socket,
                 control_tries, control_socket, conn_result>>
batchVars == <<lg_pc, lg_todo, lg_read, batch, last_emit, lg_now, lg_batches>>
sendVars == <<send_call, wire, send_log>>
lateVars == <<connectVars, batchVars, sendVars>>
moreVars == <<pipeVars, timedVars, lateVars>>
otherVars == <<controlVars, agentVars, parseVars, builderVars, moreVars>>
mainVars == <<scrcpyVars, runnerVars, trackerVars, logcatVars, serviceVars, appVars>>
nonControlVars == <<mainVars, agentVars, parseVars, builderVars, moreVars>>
nonAgentVars == <<mainVars, controlVars, parseVars, builderVars, moreVars>>
nonParseVars == <<mainVars, controlVars, agentVars, builderVars, moreVars>>
nonBuilderVars == <<mainVars, controlVars, agentVars, parseVars, moreVars>>
nonPipeVars == <<mainVars, controlVars, agentVars, parseVars, builderVars, timedVars, lateVars>>
nonTimedTrackerVars == <<appVars, scrcpyVars, runnerVars, logcatVars, serviceVars, controlVars,
                         agentVars, parseVars, builderVars, pipeVars, lateVars>>
earlyVars == <<mainVars, controlVars, agentVars, parseVars, builderVars, pipeVars, timedVars>>
nonConnectVars == <<earlyVars, batchVars, sendVars>>
nonBatchVars == <<earlyVars, connectVars, sendVars>>
\* send_control_event takes and releases the registry mutex
nonSendLockVars == <<sync_call, sync_events, callVars, scrcpyVars, appVars, runnerVars,
                     trackerVars, logcatVars, controlVars, agentVars, parseVars, builderVars,
                     pipeVars, timedVars, connectVars, batchVars>>

nonScrcpyVars == <<appVars, runnerVars, trackerVars, logcatVars, serviceVars,
                   otherVars>>
nonRunnerVars == <<appVars, scrcpyVars, trackerVars, logcatVars, serviceVars,
                   otherVars>>
nonTrackerVars == <<appVars, scrcpyVars, runnerVars, logcatVars, serviceVars,
                   otherVars>>
nonLogcatVars == <<appVars, scrcpyVars, runnerVars, trackerVars, serviceVars,
                   otherVars>>
nonServiceVars == <<appVars, runnerVars, trackerVars, logcatVars, otherVars>>
nonAppVars == <<runnerVars, serviceVars, otherVars>>

vars == <<scrcpyVars, runnerVars, trackerVars, logcatVars, serviceVars, appVars, otherVars>>

(***************************************************************************)
(* Each subsystem before anything has been started.                        *)
(***************************************************************************)
NoResult == [ok |-> FALSE, status |-> None, code |-> "", details |-> ""]

\* services/scrcpy.rs: SCRCPY_SESSIONS is empty, no session object exists
ScrcpyIdle ==
    /\ sessions = [d \in Devices |-> NoSession]
    /\ session_dev = [s \in Sessions |-> "none"]
    /\ streaming = [s \in Sessions |-> FALSE]
    /\ server_process = [s \in Sessions |-> "none"]
    /\ last_sps = [s \in Sessions |-> <<>>]
    /\ last_pps = [s \in Sessions |-> <<>>]
    /\ last_idr = [s \in Sessions |-> <<>>]
    /\ rpc = [s \in Sessions |-> "idle"]
    /\ peer = [s \in Sessions |-> "none"]
    /\ nal_buffer = [s \in Sessions |-> <<>>]
    /\ nal_data = [s \in Sessions |-> <<>>]
    /\ frames = [d \in Devices |-> <<>>]
    /\ units = [s \in Sessions |-> <<>>]
    /\ socket = [s \in Sessions |-> <<>>]

\* no process-runner call in progress
RunnerIdle ==
    /\ run_impl = "none"
    /\ retries = 0
    /\ attempt = 0
    /\ run_pc = "idle"
    /\ children = <<>>
    /\ attempt_result = NoResult
    /\ attempt_log = <<>>
    /\ last_error = NoResult
    /\ run_result = NoResult

Workers == {"reader", "heartbeat"}

\* adb/tracker.rs: the tracker has not been started
TrackerIdle ==
    /\ running = FALSE
    /\ last_devices = <<>>
    /\ world = <<>>
    /\ world_changes = 0
    /\ wpc = [w \in Workers |-> "idle"]
    /\ listed = [w \in Workers |-> <<>>]
    /\ since_emit = "ge"
    /\ track_child = "none"
    /\ device_events = <<>>

\* adb logcat children the model lets the application spawn
MaxLogcatChildren == 2
LogcatChildren == 1..MaxLogcatChildren
NoCall == [op |-> "none", dev |-> "none", pc |-> "none"]

\* commands/logcat.rs: LogcatState::new(), no stream started
LogcatIdle ==
    /\ streams = [d \in Devices |-> 0]
    /\ logcat_call = NoCall
    /\ lchild = [c \in LogcatChildren |-> [dev |-> "none", state |-> "unborn"]]
    /\ lpipe = [c \in LogcatChildren |-> 0]
    /\ lwritten = 0
    /\ lreader = [c \in LogcatChildren |-> "none"]
    /\ lbatch = [c \in LogcatChildren |-> 0]
    /\ logcat_events = <<>>

\* sync_session calls the model lets the viewers make
MaxSyncCalls == 2
SyncCalls == 1..MaxSyncCalls
Labels == {"main", "viewer"}
Free == [kind |-> "free", id |-> 0]
NoSync == [dev |-> "none", label |-> "none", pc |-> "idle", session |-> NoSession,
           sps |-> <<>>, pps |-> <<>>, idr |-> <<>>]

\* a start_server frame keeps, after the call has returned, the session it
\* built and what it returned, until the next command starts
NoStart == [dev |-> "none", pc |-> "idle", session |-> NoSession, pkill |-> "none",
            result |-> "none", code |-> ""]
\* a stop_server frame keeps, after the call has returned, what it removed and
\* what it returned, until the next command starts
NoStop == [dev |-> "none", pc |-> "idle", session |-> NoSession, result |-> "none"]

\* services/scrcpy.rs: no call into the registry is in progress
ServiceIdle ==
    /\ sessions_lock = Free
    /\ sync_call = [c \in SyncCalls |-> NoSync]
    /\ sync_events = <<>>
    /\ start_call = NoStart
    /\ stop_call = NoStop

\* lib.rs: the application is running, no Exit event yet
AppRunning == app_phase = "running"

NoTouch == [dev |-> "none", action |-> 0, x |-> 0, y |-> 0, width |-> 0, height |-> 0,
            result |-> "none"]

\* no control message was sent
ControlIdle ==
    /\ control = [s \in Sessions |-> <<>>]
    /\ touch_call = NoTouch

\* serde_json::Value: null, a string, an array or an object (its members as
\* <<key, value>> pairs)
Null == [t |-> "null", s |-> "", a |-> <<>>, o |-> <<>>]
Str(x) == [t |-> "string", s |-> x, a |-> <<>>, o |-> <<>>]
Arr(xs) == [t |-> "array", s |-> "", a |-> xs, o |-> <<>>]
Obj(ms) == [t |-> "object", s |-> "", a |-> <<>>, o |-> ms]

AgentCalls == {"c1", "c2"}
NoStream == 0
NoAgentCall == [pc |-> "idle", path |-> <<>>, stream |-> NoStream, connects |-> 0,
                starts |-> 0, result |-> "none", value |-> Null]

\* adb/agent_manager.rs: no call was made, no connection opened
AgentIdle ==
    /\ agent_call = [c \in AgentCalls |-> NoAgentCall]
    /\ agent_conns = <<>>

\* adb/executor.rs: nothing was parsed
ParseIdle ==
    /\ devices_output = <<>>
    /\ devices_results = <<>>

\* AdbCommand: the variant, its bool, its one or two strings, its Vec<String>
Cmd(kind, flag, a, b, argv) == [kind |-> kind, flag |-> flag, a |-> a, b |-> b, argv |-> argv]
NoAdbCommand == Cmd("none", FALSE, "", "", <<>>)
NoBuild == [command |-> NoAdbCommand, args |-> <<>>]

\* AdbCommandBuilder.device_id: Option<String>
NoDevice == [some |-> FALSE, v |-> ""]
SomeDevice(id) == [some |-> TRUE, v |-> id]
NoBuilder == [made |-> FALSE, device_id |-> NoDevice]

\* adb/command_builder.rs: no builder was constructed
BuilderIdle ==
    /\ builder = NoBuilder
    /\ built = NoBuild

\* the child of one attempt: the pipe each of its writes goes to (one byte
\* each), how many it has made, and the time it computes before it exits
NoChild == [state |-> "none", script |-> <<>>, pos |-> 0, work |-> 0, status |-> 0]
EmptyPipes == [stdout |-> 0, stderr |-> 0]
NoOutput == [ok |-> FALSE, status |-> 0, stdout |-> 0, stderr |-> 0, details |-> ""]

\* adb/client.rs, adb/executor.rs: no attempt was made
PipeIdle ==
    /\ proc_pc = "idle"
    /\ proc_child = NoChild
    /\ proc_pipes = EmptyPipes
    /\ proc_clock = 0
    /\ proc_result = NoOutput

\* milliseconds in a tick of the tracker's clock
TickMs == 500
\* let mut last_emit_time = Instant::now() - Duration::from_secs(10)
TenSecondsAgo == 0 - (10000 \div TickMs)

NoLine == [text |-> <<"-">>, listed |-> FALSE, at |-> 0]
NoWait == [snapshot |-> <<>>, secs |-> 0, start |-> 0]

\* adb/tracker.rs: the clocks when run_tracker starts
TimedIdle ==
    /\ now = 0
    /\ last_emit_time = TenSecondsAgo
    /\ last_event_time = TenSecondsAgo
    /\ line_seen = NoLine
    /\ hb_wait = NoWait

\* services/scrcpy.rs: no start_server call has reached its connect loops
ConnectIdle ==
    /\ conn_pc = "idle"
    /\ conn_attempt = 0
    /\ video_connects = 0
    /\ video_peer = "none"
    /\ video_socket = "none"
    /\ control_tries = 0
    /\ control_socket = "none"
    /\ conn_result = "none"

\* commands/logcat.rs: no reader thread is followed line by line
BatchIdle ==
    /\ lg_pc = "idle"
    /\ lg_todo = <<>>
    /\ lg_read = <<>>
    /\ batch = <<>>
    /\ last_emit = 0
    /\ lg_now = 0
    /\ lg_batches = <<>>

Senders == {"t1", "t2"}
NoSend == [pc |-> "idle", dev |-> "none", message |-> <<>>, written |-> 0, result |-> "none"]

\* services/scrcpy.rs: no control message was sent from any thread
SendIdle ==
    /\ send_call = [c \in Senders |-> NoSend]
    /\ wire = [s \in Sessions |-> <<>>]
    /\ send_log = <<>>

LateIdle == ConnectIdle /\ BatchIdle /\ SendIdle
MoreIdle == PipeIdle /\ TimedIdle /\ LateIdle
OtherIdle == ControlIdle /\ AgentIdle /\ ParseIdle /\ BuilderIdle /\ MoreIdle
MainIdle ==
    AppRunning /\ ScrcpyIdle /\ RunnerIdle /\ TrackerIdle /\ LogcatIdle /\ ServiceIdle
NonControlIdle ==
    /\ AppRunning /\ RunnerIdle /\ TrackerIdle /\ LogcatIdle /\ ServiceIdle
    /\ AgentIdle /\ ParseIdle /\ BuilderIdle /\ MoreIdle
NonAgentIdle == MainIdle /\ ControlIdle /\ ParseIdle /\ BuilderIdle /\ MoreIdle
NonParseIdle == MainIdle /\ ControlIdle /\ AgentIdle /\ BuilderIdle /\ MoreIdle
NonBuilderIdle == MainIdle /\ ControlIdle /\ AgentIdle /\ ParseIdle /\ MoreIdle
NonPipeIdle ==
    MainIdle /\ ControlIdle /\ AgentIdle /\ ParseIdle /\ BuilderIdle /\ TimedIdle /\ LateIdle
EarlyIdle ==
    /\ MainIdle /\ ControlIdle /\ AgentIdle /\ ParseIdle /\ BuilderIdle
    /\ PipeIdle /\ TimedIdle
NonConnectIdle == EarlyIdle /\ BatchIdle /\ SendIdle
NonBatchIdle == EarlyIdle /\ ConnectIdle /\ SendIdle

NonScrcpyIdle == AppRunning /\ RunnerIdle /\ TrackerIdle /\ LogcatIdle /\ ServiceIdle /\ OtherIdle
NonRunnerIdle == AppRunning /\ ScrcpyIdle /\ TrackerIdle /\ LogcatIdle /\ ServiceIdle /\ OtherIdle
NonTrackerIdle == AppRunning /\ ScrcpyIdle /\ RunnerIdle /\ LogcatIdle /\ ServiceIdle /\ OtherIdle
NonLogcatIdle == AppRunning /\ ScrcpyIdle /\ RunnerIdle /\ TrackerIdle /\ ServiceIdle /\ OtherIdle
NonServiceIdle == AppRunning /\ RunnerIdle /\ TrackerIdle /\ LogcatIdle /\ OtherIdle

(***************************************************************************)
(* The video streams the model feeds to a reader.                          *)
(***************************************************************************)
StartCodes == {<<0, 0, 1>>, <<0, 0, 0, 1>>}
\* first payload byte: 0x67 SPS, 0x68 PPS, 0x65 IDR, 0x41 and 0x01 non-IDR slices
HeaderBytes == {103, 104, 101, 65}
ExtractHeaderBytes == {103, 1}
TailBytes == {0, 1}

SeqsUpTo(S, n) == UNION { [1..k -> S] : k \in 0..n }

HasStartCode(data) ==
    \E i \in 1..(Len(data) - 2) :
        /\ data[i] = 0 /\ data[i + 1] = 0
        /\ \/ data[i + 2] = 1
           \/ (i + 3 <= Len(data) /\ data[i + 2] = 0 /\ data[i + 3] = 1)

\* payloads of valid NAL units: a header byte, no start code inside, and (as
\* H.264 requires of every NAL unit) a last byte that is not 00
Payloads(headers) ==
    { p \in { <<h>> \o t : h \in headers, t \in SeqsUpTo(TailBytes, MaxPayload - 1) } :
        ~HasStartCode(p) /\ p[Len(p)] # 0 }

ValidUnits(headers) == { sc \o p : sc \in StartCodes, p \in Payloads(headers) }

UnitSeqs(headers) == SeqsUpTo(ValidUnits(headers), MaxUnits)

RECURSIVE Flatten(_)
Flatten(us) == IF us = <<>> THEN <<>> ELSE Head(us) \o Flatten(Tail(us))

(***************************************************************************)
(* services/scrcpy.rs: decode_and_stream, the video reader thread.         *)
(***************************************************************************)

\* read_exact of the 64-byte device name
decode_and_stream_name(s) ==
    /\ rpc[s] = "name"
    /\ \/ rpc' = [rpc EXCEPT ![s] = "header"]
       \/ rpc' = [rpc EXCEPT ![s] = "exit"]
    /\ UNCHANGED <<sessionVars, cacheVars, socket, peer, nal_buffer, nal_data, frames, units,
                   nonScrcpyVars>>

\* read_exact of the 12-byte video header
decode_and_stream_header(s) ==
    /\ rpc[s] = "header"
    /\ \/ rpc' = [rpc EXCEPT ![s] = "check"]
       \/ rpc' = [rpc EXCEPT ![s] = "exit"]
    /\ UNCHANGED <<sessionVars, cacheVars, socket, peer, nal_buffer, nal_data, frames, units,
                   nonScrcpyVars>>

\* loop head: if !*streaming.lock().unwrap() { break }
decode_and_stream_check(s) ==
    /\ rpc[s] = "check"
    /\ rpc' = [rpc EXCEPT ![s] = IF streaming[s] THEN "read" ELSE "exit"]
    /\ UNCHANGED <<sessionVars, cacheVars, socket, peer, nal_buffer, nal_data, frames, units,
                   nonScrcpyVars>>

\* socket.read(&mut buffer) with a receive timeout treated like any other
\* error: it ends the thread
decode_and_stream_read_timeout_ends(s) ==
    /\ rpc[s] = "read"
    /\ \/ /\ peer[s] # "reset"
          /\ \E n \in 1..Len(socket[s]) :
                /\ nal_buffer' = [nal_buffer EXCEPT ![s] = @ \o SubSeq(socket[s], 1, n)]
                /\ socket' = [socket EXCEPT ![s] = SubSeq(@, n + 1, Len(@))]
          /\ rpc' = [rpc EXCEPT ![s] = "extract"]
       \/ /\ socket[s] = <<>> \/ peer[s] = "reset"
          /\ rpc' = [rpc EXCEPT ![s] = "exit"]
          /\ UNCHANGED <<socket, nal_buffer>>
    /\ UNCHANGED <<sessionVars, cacheVars, peer, nal_data, frames, units, nonScrcpyVars>>

\* socket.read(&mut buffer): Ok(n) with n > 0 appends the chunk; Ok(0) ends
\* the thread; a receive timeout re-enters the loop; another error ends it
decode_and_stream_read(s) ==
    /\ rpc[s] = "read"
    /\ \/ /\ peer[s] # "reset"
          /\ \E n \in 1..Len(socket[s]) :
                /\ nal_buffer' = [nal_buffer EXCEPT ![s] = @ \o SubSeq(socket[s], 1, n)]
                /\ socket' = [socket EXCEPT ![s] = SubSeq(@, n + 1, Len(@))]
          /\ rpc' = [rpc EXCEPT ![s] = "extract"]
       \/ /\ peer[s] = "closed" /\ socket[s] = <<>>
          /\ rpc' = [rpc EXCEPT ![s] = "exit"]
          /\ UNCHANGED <<socket, nal_buffer>>
       \/ /\ peer[s] = "open" /\ socket[s] = <<>>
          /\ rpc' = [rpc EXCEPT ![s] = "check"]
          /\ UNCHANGED <<socket, nal_buffer>>
       \/ /\ peer[s] = "reset"
          /\ rpc' = [rpc EXCEPT ![s] = "exit"]
          /\ UNCHANGED <<socket, nal_buffer>>
    /\ UNCHANGED <<sessionVars, cacheVars, peer, nal_data, frames, units, nonScrcpyVars>>

\* while let Some(nal_data) = extract_next_nal(&mut nal_buffer): the unit is
\* classified and the matching cache slot replaced
decode_and_stream_extract(s) ==
    /\ rpc[s] = "extract"
    /\ LET r == extract_next_nal(nal_buffer[s])
           t == IF r.nal = <<>> THEN None ELSE nal_type(r.nal)
       IN  /\ nal_buffer' = [nal_buffer EXCEPT ![s] = r.buf]
           /\ nal_data' = [nal_data EXCEPT ![s] = r.nal]
           /\ rpc' = [rpc EXCEPT ![s] = IF r.nal = <<>> THEN "check" ELSE "emit"]
           /\ last_sps' = IF t = 7 THEN [last_sps EXCEPT ![s] = r.nal] ELSE last_sps
           /\ last_pps' = IF t = 8 THEN [last_pps EXCEPT ![s] = r.nal] ELSE last_pps
           /\ last_idr' = IF t = 5 THEN [last_idr EXCEPT ![s] = r.nal] ELSE last_idr
    /\ UNCHANGED <<sessionVars, socket, peer, frames, units, nonScrcpyVars>>

\* decode_and_stream_emit with the event put first: the event overtakes the earlier ones
decode_and_stream_emit_first(s) ==
    /\ rpc[s] = "emit"
    /\ frames' = [frames EXCEPT ![session_dev[s]] = <<<<s, nal_data[s]>>>> \o @]
    /\ rpc' = [rpc EXCEPT ![s] = "extract"]
    /\ UNCHANGED <<sessionVars, cacheVars, socket, peer, nal_buffer, nal_data, units,
                   nonScrcpyVars>>

\* app_handle.emit("scrcpy-frame-<device>", base64 of the unit)
decode_and_stream_emit(s) ==
    /\ rpc[s] = "emit"
    /\ frames' = [frames EXCEPT ![session_dev[s]] = Append(@, <<s, nal_data[s]>>)]
    /\ rpc' = [rpc EXCEPT ![s] = "extract"]
    /\ UNCHANGED <<sessionVars, cacheVars, socket, peer, nal_buffer, nal_data, units,
                   nonScrcpyVars>>

decode_and_stream(s) ==
    \/ decode_and_stream_name(s)
    \/ decode_and_stream_header(s)
    \/ decode_and_stream_check(s)
    \/ decode_and_stream_read(s)
    \/ decode_and_stream_extract(s)
    \/ decode_and_stream_emit(s)

\* the scrcpy server (the adb shell child) ends by itself: the video socket
\* reaches end of stream once the bytes in flight are read
ServerExit(s) ==
    /\ server_process[s] = "alive"
    /\ server_process' = [server_process EXCEPT ![s] = "exited"]
    /\ peer' = [peer EXCEPT ![s] = IF @ = "open" THEN "closed" ELSE @]
    /\ UNCHANGED <<sessions, session_dev, streaming, cacheVars,
                   rpc, socket, nal_buffer, nal_data, frames, units, nonScrcpyVars>>

\* the forwarded connection breaks (adb server killed, forward removed)
SocketReset(s) ==
    /\ peer[s] = "open"
    /\ peer' = [peer EXCEPT ![s] = "reset"]
    /\ UNCHANGED <<sessionVars, cacheVars, rpc, socket, nal_buffer, nal_data, frames, units,
                   nonScrcpyVars>>

(***************************************************************************)
(* SpecNal, SpecClassify: one session whose server sends any sequence of   *)
(* valid NAL units and whose reader receives it in chunks of any size.     *)
(***************************************************************************)
InitReader(inputs) ==
    /\ sessions = [d \in Devices |-> IF d = "d1" THEN 1 ELSE NoSession]
    /\ session_dev = [s \in Sessions |-> IF s = 1 THEN "d1" ELSE "none"]
    /\ streaming = [s \in Sessions |-> s = 1]
    /\ server_process = [s \in Sessions |-> IF s = 1 THEN "alive" ELSE "none"]
    /\ last_sps = [s \in Sessions |-> <<>>]
    /\ last_pps = [s \in Sessions |-> <<>>]
    /\ last_idr = [s \in Sessions |-> <<>>]
    /\ rpc = [s \in Sessions |-> IF s = 1 THEN "name" ELSE "idle"]
    /\ peer = [s \in Sessions |-> IF s = 1 THEN "open" ELSE "none"]
    /\ nal_buffer = [s \in Sessions |-> <<>>]
    /\ nal_data = [s \in Sessions |-> <<>>]
    /\ frames = [d \in Devices |-> <<>>]
    /\ \E us \in inputs :
          /\ units = [s \in Sessions |-> IF s = 1 THEN us ELSE <<>>]
          /\ socket = [s \in Sessions |-> IF s = 1 THEN Flatten(us) ELSE <<>>]

InitNal == InitReader(UnitSeqs(ExtractHeaderBytes)) /\ NonScrcpyIdle

NextNal == \E s \in Sessions : decode_and_stream(s)

SpecNal == InitNal /\ [][NextNal]_vars

InitClassify == InitReader(UnitSeqs(HeaderBytes)) /\ NonScrcpyIdle

NextClassify ==
    \E s \in Sessions :
        \/ decode_and_stream(s)
        \/ ServerExit(s)
        \/ SocketReset(s)

SpecClassify == InitClassify /\ [][NextClassify]_vars

\* the NAL units session s emitted on its frame channel, in order
NalsOf(s) ==
    LET ch == IF session_dev[s] \in Devices THEN frames[session_dev[s]] ELSE <<>>
        f  == SelectSeq(ch, LAMBDA e : e[1] = s)
    IN  [i \in 1..Len(f) |-> f[i][2]]

IsPrefix(a, b) == Len(a) <= Len(b) /\ a = SubSeq(b, 1, Len(a))

\* every chunk received so far has been run through the extraction loop
Drained(s) == rpc[s] \in {"check", "read"} /\ socket[s] = <<>>

StartCodeLen(nal) == IF nal[3] = 1 THEN 3 ELSE 4

\* C4: when a unit is extracted, the SPS, PPS or IDR slot is replaced by the
\* unit if the low five bits of the byte after its start code are 7, 8 or 5,
\* and all three slots are left unchanged for every other value.
C4_Classification ==
    [][ \A s \in Sessions :
          (rpc[s] = "extract" /\ rpc'[s] = "emit") =>
             LET nal == nal_data'[s]
                 ty  == nal[StartCodeLen(nal) + 1] % 32
             IN  /\ last_sps'[s] = IF ty = 7 THEN nal ELSE last_sps[s]
                 /\ last_pps'[s] = IF ty = 8 THEN nal ELSE last_pps[s]
                 /\ last_idr'[s] = IF ty = 5 THEN nal ELSE last_idr[s] ]_vars

(***************************************************************************)
(* adb/executor.rs (AdbExecutor::run_with_retry, run_with_timeout) and     *)
(* adb/client.rs (AdbClient::execute_with_config, wait_for_process): the   *)
(* process runner.  The two implementations differ in the detail text of   *)
(* their errors only.                                                      *)
(***************************************************************************)
\* retries argument of a call
MaxRetries == 2

RunnerImpls == {"AdbExecutor", "AdbClient"}
ExitStatuses == {0, 1}

\* error.rs: impl From<AdbError> for AppError (the code of each kind)
AppErrorCode(kind) ==
    CASE kind = "NotFound"        -> "ADB_NOT_FOUND"
      [] kind = "ExecutionFailed" -> "ADB_EXECUTION_FAILED"
      [] kind = "ParseError"      -> "ADB_PARSE_ERROR"
      [] kind = "DeviceNotFound"  -> "DEVICE_NOT_FOUND"
      [] kind = "Unauthorized"    -> "DEVICE_UNAUTHORIZED"
      [] kind = "Timeout"         -> "ADB_TIMEOUT"

\* AppError::from(AdbError::<kind>(details))
AppErrorFrom(kind, details) ==
    [ok |-> FALSE, status |-> None, code |-> AppErrorCode(kind), details |-> details]

\* Ok(Output) with the child's exit status
OkOutput(st) == [ok |-> TRUE, status |-> st, code |-> "", details |-> ""]

LogEntry(outcome, res, child) == [outcome |-> outcome, result |-> res, child |-> child]

\* the shell calls the runner: retries is the caller's argument
RunnerCall ==
    /\ run_pc = "idle"
    /\ \E i \in RunnerImpls, r \in 0..MaxRetries :
          /\ run_impl' = i
          /\ retries' = r
    /\ attempt' = 0
    /\ last_error' = AppErrorFrom("ExecutionFailed", "No attempts made")
    /\ run_pc' = "loop"
    /\ UNCHANGED <<children, attempt_result, attempt_log, run_result, nonRunnerVars>>

\* for attempt in 0..=retries { ... } Err(last_error)
run_with_retry_loop ==
    /\ run_pc = "loop"
    /\ IF attempt <= retries
       THEN run_pc' = "spawn" /\ UNCHANGED run_result
       ELSE run_pc' = "done" /\ run_result' = last_error
    /\ UNCHANGED <<run_impl, retries, attempt, children, attempt_result, attempt_log,
                   last_error, nonRunnerVars>>

\* run_with_timeout / wait_for_process: cmd.spawn()
run_with_timeout_spawn ==
    /\ run_pc = "spawn"
    /\ \/ /\ children' = Append(children, "running")
          /\ run_pc' = "wait"
          /\ UNCHANGED <<attempt_result, attempt_log>>
       \/ LET e == AppErrorFrom("ExecutionFailed",
                                IF run_impl = "AdbClient" THEN "Failed to spawn process"
                                ELSE "spawn error")
          IN  /\ attempt_result' = e
              /\ attempt_log' = Append(attempt_log, LogEntry("spawn_failed", e, 0))
              /\ run_pc' = "match"
              /\ UNCHANGED children
    /\ UNCHANGED <<run_impl, retries, attempt, last_error, run_result, nonRunnerVars>>

\* child.wait_timeout(timeout): Some(status), None (timeout elapsed) or Err
run_with_timeout_wait ==
    /\ run_pc = "wait"
    /\ \/ \E st \in ExitStatuses :
             /\ children' = [children EXCEPT ![Len(children)] = "exited"]
             /\ attempt_result' = OkOutput(st)
             /\ run_pc' = "output"
             /\ UNCHANGED attempt_log
       \/ /\ run_pc' = "kill"
          /\ UNCHANGED <<children, attempt_result, attempt_log>>
       \/ LET e == AppErrorFrom("ExecutionFailed",
                                IF run_impl = "AdbClient" THEN "Wait error" ELSE "wait error")
          IN  /\ attempt_result' = e
              /\ attempt_log' = Append(attempt_log, LogEntry("wait_error", e, Len(children)))
              /\ run_pc' = "match"
              /\ UNCHANGED children
    /\ UNCHANGED <<run_impl, retries, attempt, last_error, run_result, nonRunnerVars>>

\* None => { child.kill(); child.wait(); Err(ExecutionFailed("Command timed out")) }
run_with_timeout_kill ==
    /\ run_pc = "kill"
    /\ children' = [children EXCEPT ![Len(children)] = "reaped"]
    /\ LET e == AppErrorFrom("ExecutionFailed", "Command timed out")
       IN  /\ attempt_result' = e
           /\ attempt_log' = Append(attempt_log, LogEntry("timed_out", e, Len(children)))
    /\ run_pc' = "match"
    /\ UNCHANGED <<run_impl, retries, attempt, last_error, run_result, nonRunnerVars>>

\* Some(_) => child.wait_with_output()
run_with_timeout_output ==
    /\ run_pc = "output"
    /\ \/ /\ children' = [children EXCEPT ![Len(children)] = "reaped"]
          /\ attempt_log' = Append(attempt_log,
                                   LogEntry("completed", attempt_result, Len(children)))
          /\ UNCHANGED attempt_result
       \/ LET e == AppErrorFrom("ExecutionFailed",
                                IF run_impl = "AdbClient" THEN "Output error" ELSE "output error")
          IN  /\ attempt_result' = e
              /\ attempt_log' = Append(attempt_log, LogEntry("output_error", e, Len(children)))
              /\ UNCHANGED children
    /\ run_pc' = "match"
    /\ UNCHANGED <<run_impl, retries, attempt, last_error, run_result, nonRunnerVars>>

\* the match of run_with_retry with a completed non-zero exit retried as well
run_with_retry_match_nonzero_retried ==
    /\ run_pc = "match"
    /\ IF attempt_result.ok /\ attempt_result.status = 0
       THEN /\ run_result' = attempt_result
            /\ run_pc' = "done"
            /\ UNCHANGED <<attempt, last_error>>
       ELSE /\ last_error' = attempt_result
            /\ attempt' = attempt + 1
            /\ run_pc' = "loop"
            /\ UNCHANGED run_result
    /\ UNCHANGED <<run_impl, retries, children, attempt_result, attempt_log, nonRunnerVars>>

\* match self.run_with_timeout(..) { Ok(output) => return Ok(output),
\*                                   Err(e) => last_error = e }
run_with_retry_match ==
    /\ run_pc = "match"
    /\ IF attempt_result.ok
       THEN /\ run_result' = attempt_result
            /\ run_pc' = "done"
            /\ UNCHANGED <<attempt, last_error>>
       ELSE /\ last_error' = attempt_result
            /\ attempt' = attempt + 1
            /\ run_pc' = "loop"
            /\ UNCHANGED run_result
    /\ UNCHANGED <<run_impl, retries, children, attempt_result, attempt_log, nonRunnerVars>>

InitRunner == RunnerIdle /\ NonRunnerIdle

NextRunner ==
    \/ RunnerCall
    \/ run_with_retry_loop
    \/ run_with_timeout_spawn
    \/ run_with_timeout_wait
    \/ run_with_timeout_kill
    \/ run_with_timeout_output
    \/ run_with_retry_match

SpecRunner == InitRunner /\ [][NextRunner]_vars

Returned == run_pc = "done"
LastAttempt == attempt_log[Len(attempt_log)]

\* C8: an attempt whose child had not exited when the timeout elapsed has its
\* child killed and reaped before it returns, and it fails with the Timeout
\* kind (code ADB_TIMEOUT); so does the call when that was its last attempt.
C8_TimeoutKind ==
    /\ \A i \in DOMAIN attempt_log :
          attempt_log[i].outcome = "timed_out" =>
             /\ children[attempt_log[i].child] = "reaped"
             /\ attempt_log[i].result.code = "ADB_TIMEOUT"
    /\ (Returned /\ attempt_log # <<>> /\ LastAttempt.outcome = "timed_out") =>
          run_result.code = "ADB_TIMEOUT"

\* C9 (as stated): at most retries+1 attempts; an attempt is followed by
\* another only if it failed to spawn or timed out; the first attempt whose
\* child completes ends the loop and its output is returned; when all
\* retries+1 attempts fail the call returns the last attempt's error.
C9_RetryOnlySpawnOrTimeout ==
    /\ Len(attempt_log) <= retries + 1
    /\ \A i \in 1..(Len(attempt_log) - 1) :
          attempt_log[i].outcome \in {"spawn_failed", "timed_out"}
    /\ Returned =>
          /\ attempt_log # <<>>
          /\ LastAttempt.outcome = "completed" => run_result = LastAttempt.result
          /\ LastAttempt.outcome # "completed" =>
                /\ Len(attempt_log) = retries + 1
                /\ run_result = LastAttempt.result

\* C9 (amended): at most retries+1 attempts; an attempt is followed by another
\* only if it returned an error (spawn failure, wait failure, timeout, or a
\* failure to collect the output of the exited child); the first attempt that
\* returns an output, with a zero or a non-zero exit status, ends the loop and
\* that output is returned; when all retries+1 attempts return an error the
\* call returns the last attempt's error.
C9_RetryOnlyOnError ==
    /\ Len(attempt_log) <= retries + 1
    /\ \A i \in 1..(Len(attempt_log) - 1) :
          /\ ~attempt_log[i].result.ok
          /\ attempt_log[i].outcome \in
                {"spawn_failed", "wait_error", "timed_out", "output_error"}
    /\ (run_pc \in {"loop", "spawn", "wait", "kill", "output"} /\ attempt_log # <<>>) =>
          ~LastAttempt.result.ok
    /\ Returned =>
          /\ attempt_log # <<>>
          /\ run_result = LastAttempt.result
          /\ LastAttempt.outcome = "completed" <=> run_result.ok
          /\ ~run_result.ok => Len(attempt_log) = retries + 1

\* a call with two retries whose third attempt completed with a non-zero
\* exit status after a timeout and a spawn failure
C9_Witness ==
    /\ Returned /\ retries = 2 /\ Len(attempt_log) = 3
    /\ attempt_log[1].outcome = "timed_out"
    /\ attempt_log[2].outcome = "spawn_failed"
    /\ run_result.ok /\ run_result.status = 1

(***************************************************************************)
(* adb/tracker.rs: the device tracker (track-devices reader and heartbeat). *)
(***************************************************************************)
\* changes of the connected-device set during one run
MaxWorldChanges == 1

DeviceInfo(id, status, model, product) ==
    [id |-> id, status |-> status, model |-> model, product |-> product]

\* the device lists adb devices -l reports in the model: they differ in
\* length, in order, and in the id, status, model or product of an entry
PixelAuthorized == DeviceInfo("d1", "Device", "Pixel 7", "panther")
PixelUnauthorized == DeviceInfo("d1", "Unauthorized", "", "")
PixelRenamed == DeviceInfo("d1", "Device", "Google Pixel 7", "panther")
PixelOtherProduct == DeviceInfo("d1", "Device", "Pixel 7", "cheetah")
Emulator == DeviceInfo("d2", "Device", "sdk_phone", "sdk")

Worlds ==
    {<<>>, <<PixelUnauthorized>>, <<PixelAuthorized>>, <<PixelRenamed>>, <<PixelOtherProduct>>,
     <<PixelAuthorized, Emulator>>, <<Emulator, PixelAuthorized>>}

\* one change at a time: a device is plugged or unplugged, is authorized,
\* reports another model or product, or the listing order changes
WorldEdges ==
    {{<<>>, <<PixelUnauthorized>>}, {<<>>, <<PixelAuthorized>>},
     {<<PixelUnauthorized>>, <<PixelAuthorized>>},
     {<<PixelAuthorized>>, <<PixelRenamed>>},
     {<<PixelAuthorized>>, <<PixelOtherProduct>>},
     {<<PixelAuthorized>>, <<PixelAuthorized, Emulator>>},
     {<<PixelAuthorized, Emulator>>, <<Emulator, PixelAuthorized>>}}

\* DeviceInfo == DeviceInfo: all four fields
DeviceInfoEq(x, y) ==
    /\ x.id = y.id
    /\ x.status = y.status
    /\ x.model = y.model
    /\ x.product = y.product

\* Vec<DeviceInfo> == Vec<DeviceInfo>: same length, equal entry by entry
VecEq(xs, ys) ==
    /\ Len(xs) = Len(ys)
    /\ \A i \in 1..Len(xs) : DeviceInfoEq(xs[i], ys[i])

\* where a worker continues when emit_if_changed returns
AfterEmitIfChanged(w) == IF w = "reader" THEN "lines" ELSE "loop"

\* start_device_tracker: running = true, empty snapshot, both workers started
start_device_tracker ==
    /\ wpc = [w \in Workers |-> "idle"]
    /\ running' = TRUE
    /\ last_devices' = <<>>
    /\ wpc' = [w \in Workers |-> "loop"]
    /\ since_emit' = "ge"
    /\ UNCHANGED <<world, world_changes, listed, track_child, device_events, nonTrackerVars>>

\* emit_if_changed: executor.list_devices(); an Err skips the comparison
emit_if_changed_list(w) ==
    /\ wpc[w] = "list"
    /\ \/ /\ listed' = [listed EXCEPT ![w] = world]
          /\ wpc' = [wpc EXCEPT ![w] = "compare"]
       \/ /\ wpc' = [wpc EXCEPT ![w] = AfterEmitIfChanged(w)]
          /\ UNCHANGED listed
    /\ UNCHANGED <<running, last_devices, world, world_changes, since_emit, track_child,
                   device_events, nonTrackerVars>>

\* emit_if_changed with the snapshot never stored
emit_if_changed_compare_not_stored(w) ==
    /\ wpc[w] = "compare"
    /\ IF ~VecEq(last_devices, listed[w])
       THEN device_events' = Append(device_events, [by |-> w, devices |-> listed[w]])
       ELSE UNCHANGED device_events
    /\ wpc' = [wpc EXCEPT ![w] = AfterEmitIfChanged(w)]
    /\ UNCHANGED <<running, last_devices, world, world_changes, listed, since_emit,
                   track_child, nonTrackerVars>>

\* emit_if_changed, under the last_devices mutex:
\* if *last != devices { *last = devices.clone(); app.emit("device-changed", ..) }
emit_if_changed_compare(w) ==
    /\ wpc[w] = "compare"
    /\ IF ~VecEq(last_devices, listed[w])
       THEN /\ last_devices' = listed[w]
            /\ device_events' = Append(device_events, [by |-> w, devices |-> listed[w]])
       ELSE UNCHANGED <<last_devices, device_events>>
    /\ wpc' = [wpc EXCEPT ![w] = AfterEmitIfChanged(w)]
    /\ UNCHANGED <<running, world, world_changes, listed, since_emit, track_child,
                   nonTrackerVars>>

\* run_tracker, loop head: break unless running, else spawn adb track-devices;
\* a spawn error sleeps 5 s and comes back here
run_tracker_spawn ==
    /\ wpc["reader"] = "loop"
    /\ IF ~running
       THEN wpc' = [wpc EXCEPT !["reader"] = "exit"] /\ UNCHANGED track_child
       ELSE \/ track_child' = "alive" /\ wpc' = [wpc EXCEPT !["reader"] = "lines"]
            \/ track_child' = "none" /\ UNCHANGED wpc
    /\ UNCHANGED <<running, last_devices, world, world_changes, listed, since_emit,
                   device_events, nonTrackerVars>>

\* run_tracker: for line in reader.lines() { ... }: one line, or the end of
\* the child's output, or a read error
run_tracker_line ==
    /\ wpc["reader"] = "lines"
    /\ \/ \* a line arrived while running is false: kill the child and leave the loop
          /\ ~running
          /\ track_child' = "killed"
          /\ wpc' = [wpc EXCEPT !["reader"] = "after"]
          /\ UNCHANGED since_emit
       \/ \* a non-empty line at least DEBOUNCE_MS after the last emit
          /\ running /\ since_emit = "ge"
          /\ wpc' = [wpc EXCEPT !["reader"] = "list"]
          /\ since_emit' = "lt"
          /\ UNCHANGED track_child
       \/ \* an empty line, or a non-empty one inside the debounce window
          /\ running
          /\ UNCHANGED <<wpc, since_emit, track_child>>
       \/ \* the child closed its output
          /\ track_child' = "exited"
          /\ wpc' = [wpc EXCEPT !["reader"] = "after"]
          /\ UNCHANGED since_emit
       \/ \* Err(_) => break: the child is not killed
          /\ running
          /\ track_child' = "leaked"
          /\ wpc' = [wpc EXCEPT !["reader"] = "after"]
          /\ UNCHANGED since_emit
    /\ UNCHANGED <<running, last_devices, world, world_changes, listed, device_events,
                   nonTrackerVars>>

\* run_tracker: if running { sleep(1 s) }, then the loop head again
run_tracker_after ==
    /\ wpc["reader"] = "after"
    /\ wpc' = [wpc EXCEPT !["reader"] = "loop"]
    /\ UNCHANGED <<running, last_devices, world, world_changes, listed, since_emit,
                   track_child, device_events, nonTrackerVars>>

\* a transitional device: Unauthorized or Unknown(_)
IsTransitional(d) == d.status \notin {"Device", "Offline"}

\* the heartbeat's sleep with the two durations exchanged
sleep_secs_swapped ==
    IF \E i \in 1..Len(last_devices) : IsTransitional(last_devices[i]) THEN 10 ELSE 2

\* the heartbeat's sleep: 2 s if the snapshot has a transitional device,
\* 10 s otherwise
sleep_secs == IF \E i \in 1..Len(last_devices) : IsTransitional(last_devices[i])
              THEN 2 ELSE 10

\* heartbeat, loop head: break unless running, else sleep sleep_secs
heartbeat_sleep ==
    /\ wpc["heartbeat"] = "loop"
    /\ wpc' = [wpc EXCEPT !["heartbeat"] = IF running THEN "sleep" ELSE "exit"]
    /\ UNCHANGED <<running, last_devices, world, world_changes, listed, since_emit,
                   track_child, device_events, nonTrackerVars>>

\* heartbeat, after the sleep, going back to the loop head without listing
heartbeat_wake_skips ==
    /\ wpc["heartbeat"] = "sleep"
    /\ wpc' = [wpc EXCEPT !["heartbeat"] = IF running THEN "loop" ELSE "exit"]
    /\ UNCHANGED <<running, last_devices, world, world_changes, listed, since_emit,
                   track_child, device_events, nonTrackerVars>>

\* heartbeat, after the sleep: break unless running, else emit_if_changed
heartbeat_wake ==
    /\ wpc["heartbeat"] = "sleep"
    /\ wpc' = [wpc EXCEPT !["heartbeat"] = IF running THEN "list" ELSE "exit"]
    /\ UNCHANGED <<running, last_devices, world, world_changes, listed, since_emit,
                   track_child, device_events, nonTrackerVars>>

\* DEBOUNCE_MS pass since the reader's last_emit_time
DebounceElapses ==
    /\ since_emit = "lt"
    /\ since_emit' = "ge"
    /\ UNCHANGED <<running, last_devices, world, world_changes, wpc, listed, track_child,
                   device_events, nonTrackerVars>>

\* a device is plugged, unplugged, authorized, renamed
WorldChange ==
    /\ world_changes < MaxWorldChanges
    /\ \E w \in Worlds : {world, w} \in WorldEdges /\ world' = w
    /\ world_changes' = world_changes + 1
    /\ UNCHANGED <<running, last_devices, wpc, listed, since_emit, track_child, device_events,
                   nonTrackerVars>>

TrackerSteps ==
    \/ start_device_tracker
    \/ \E w \in Workers : emit_if_changed_list(w)
    \/ \E w \in Workers : emit_if_changed_compare(w)
    \/ run_tracker_spawn
    \/ run_tracker_line
    \/ run_tracker_after
    \/ heartbeat_sleep
    \/ heartbeat_wake
    \/ DebounceElapses
    \/ WorldChange

\* the tracker is started with any of the device sets connected
InitTracker ==
    /\ running = FALSE
    /\ last_devices = <<>>
    /\ world \in Worlds
    /\ world_changes = 0
    /\ wpc = [w \in Workers |-> "idle"]
    /\ listed = [w \in Workers |-> <<>>]
    /\ since_emit = "ge"
    /\ track_child = "none"
    /\ device_events = <<>>
    /\ NonTrackerIdle

SpecTracker == InitTracker /\ [][TrackerSteps]_vars

\* the list carried by the last device-changed event (the empty initial
\* snapshot before any event)
LastEmitted ==
    IF device_events = <<>> THEN <<>> ELSE device_events[Len(device_events)].devices

\* C1: whichever worker emits, an event is emitted only when the freshly
\* listed devices differ from the last-emitted snapshot: no two consecutive
\* device-changed events carry equal lists (the first differs from the empty
\* initial snapshot), the shared snapshot is always the last list emitted,
\* and a worker that finishes emit_if_changed with a list equal to the
\* last-emitted one emits nothing.
C1_EmitOnlyOnChange ==
    /\ [](/\ \A i \in 1..(Len(device_events) - 1) :
                device_events[i].devices # device_events[i + 1].devices
          /\ device_events # <<>> => device_events[1].devices # <<>>
          /\ last_devices = LastEmitted)
    /\ [][\A w \in Workers :
            (wpc[w] = "compare" /\ wpc'[w] # "compare") =>
               IF listed[w] = LastEmitted
               THEN device_events' = device_events
               ELSE device_events' = Append(device_events, [by |-> w, devices |-> listed[w]])]_vars

\* both workers have emitted, and the heartbeat has re-listed the unchanged
\* device set and is about to compare it with the snapshot
C1_Witness ==
    /\ \E i, j \in DOMAIN device_events :
          device_events[i].by = "reader" /\ device_events[j].by = "heartbeat"
    /\ wpc["heartbeat"] = "compare" /\ listed["heartbeat"] = LastEmitted

(***************************************************************************)
(* commands/logcat.rs: logcat streaming.                                   *)
(***************************************************************************)
\* lines the adb logcat children write in the model, all together
MaxLogcatLines == 2
\* batch.len() >= 50
BatchSize == 50

\* child.kill() on a Child: a running process is killed
Killed(children_, c) ==
    IF children_[c].state = "alive"
    THEN [children_ EXCEPT ![c].state = "killed"]
    ELSE children_

\* the children spawned so far
Born == { c \in LogcatChildren : lchild[c].state # "unborn" }

\* start_logcat_stream: state.streams.lock(); held until the call returns
start_logcat_stream_lock(d) ==
    /\ logcat_call = NoCall
    /\ Cardinality(Born) < MaxLogcatChildren
    /\ logcat_call' = [op |-> "start", dev |-> d, pc |-> "remove"]
    /\ UNCHANGED <<streams, lchild, lpipe, lwritten, lreader, lbatch, logcat_events,
                   nonLogcatVars>>

\* start_logcat_stream with the existing child removed but not killed
start_logcat_stream_remove_not_killed ==
    /\ logcat_call.pc = "remove"
    /\ streams' = [streams EXCEPT ![logcat_call.dev] = 0]
    /\ logcat_call' = [logcat_call EXCEPT !.pc = "spawn"]
    /\ UNCHANGED <<lchild, lpipe, lwritten, lreader, lbatch, logcat_events, nonLogcatVars>>

\* start_logcat_stream: if let Some(mut child) = streams.remove(&device_id) { child.kill() }
start_logcat_stream_remove ==
    /\ logcat_call.pc = "remove"
    /\ LET d == logcat_call.dev
       IN  /\ streams' = [streams EXCEPT ![d] = 0]
           /\ lchild' = IF streams[d] # 0 THEN Killed(lchild, streams[d]) ELSE lchild
    /\ logcat_call' = [logcat_call EXCEPT !.pc = "spawn"]
    /\ UNCHANGED <<lpipe, lwritten, lreader, lbatch, logcat_events, nonLogcatVars>>

\* start_logcat_stream: the adb path check and the spawn (either can return
\* Err), then streams.insert and the reader thread; the call returns and the
\* mutex is released
start_logcat_stream_spawn ==
    /\ logcat_call.pc = "spawn"
    /\ \/ UNCHANGED <<streams, lchild, lreader>>
       \/ LET d == logcat_call.dev
              c == Cardinality(Born) + 1
          IN  /\ lchild' = [lchild EXCEPT ![c] = [dev |-> d, state |-> "alive"]]
              /\ streams' = [streams EXCEPT ![d] = c]
              /\ lreader' = [lreader EXCEPT ![c] = "running"]
    /\ logcat_call' = NoCall
    /\ UNCHANGED <<lpipe, lwritten, lbatch, logcat_events, nonLogcatVars>>

\* stop_logcat_stream: under the mutex, remove the entry and kill the child
stop_logcat_stream(d) ==
    /\ logcat_call = NoCall
    /\ streams' = [streams EXCEPT ![d] = 0]
    /\ lchild' = IF streams[d] # 0 THEN Killed(lchild, streams[d]) ELSE lchild
    /\ UNCHANGED <<logcat_call, lpipe, lwritten, lreader, lbatch, logcat_events,
                   nonLogcatVars>>

\* app_handle.emit("logcat-line-<device>", LogBatchPayload { device_id, lines })
LogcatEmit(c, n) ==
    Append(logcat_events, [child |-> c, dev |-> lchild[c].dev, lines |-> n])

\* the reader thread: one Ok(text) line; empty lines and "--------- beginning
\* of" headers are skipped, others are pushed, and the batch is emitted when
\* it has BatchSize lines or 100 ms have passed since the last emit
logcat_reader_line(c) ==
    /\ lreader[c] = "running"
    /\ lpipe[c] > 0
    /\ lpipe' = [lpipe EXCEPT ![c] = @ - 1]
    /\ \/ UNCHANGED <<lbatch, logcat_events>>
       \/ \E elapsed \in BOOLEAN :
             IF lbatch[c] + 1 >= BatchSize \/ elapsed
             THEN /\ logcat_events' = LogcatEmit(c, lbatch[c] + 1)
                  /\ lbatch' = [lbatch EXCEPT ![c] = 0]
             ELSE /\ lbatch' = [lbatch EXCEPT ![c] = @ + 1]
                  /\ UNCHANGED logcat_events
    /\ UNCHANGED <<streams, logcat_call, lchild, lwritten, lreader, nonLogcatVars>>

\* the reader thread: the lines end (the child is gone and the pipe is
\* drained) or a line fails to decode (Err(_) => break); final flush
logcat_reader_end(c) ==
    /\ lreader[c] = "running"
    /\ \/ lpipe[c] = 0 /\ lchild[c].state # "alive" /\ UNCHANGED lpipe
       \/ lpipe[c] > 0 /\ lpipe' = [lpipe EXCEPT ![c] = @ - 1]
    /\ IF lbatch[c] > 0
       THEN /\ logcat_events' = LogcatEmit(c, lbatch[c])
            /\ lbatch' = [lbatch EXCEPT ![c] = 0]
       ELSE UNCHANGED <<lbatch, logcat_events>>
    /\ lreader' = [lreader EXCEPT ![c] = "done"]
    /\ UNCHANGED <<streams, logcat_call, lchild, lwritten, nonLogcatVars>>

\* adb logcat writes a line to its stdout
LogcatChildWrites(c) ==
    /\ lchild[c].state = "alive"
    /\ lwritten < MaxLogcatLines
    /\ lpipe' = [lpipe EXCEPT ![c] = @ + 1]
    /\ lwritten' = lwritten + 1
    /\ UNCHANGED <<streams, logcat_call, lchild, lreader, lbatch, logcat_events, nonLogcatVars>>

\* adb logcat exits by itself (the device went away)
LogcatChildExit(c) ==
    /\ lchild[c].state = "alive"
    /\ lchild' = [lchild EXCEPT ![c].state = "exited"]
    /\ UNCHANGED <<streams, logcat_call, lpipe, lwritten, lreader, lbatch, logcat_events,
                   nonLogcatVars>>

LogcatSteps ==
    \/ \E d \in Devices : start_logcat_stream_lock(d)
    \/ start_logcat_stream_remove
    \/ start_logcat_stream_spawn
    \/ \E d \in Devices : stop_logcat_stream(d)
    \/ \E c \in LogcatChildren : logcat_reader_line(c)
    \/ \E c \in LogcatChildren : logcat_reader_end(c)
    \/ \E c \in LogcatChildren : LogcatChildWrites(c)
    \/ \E c \in LogcatChildren : LogcatChildExit(c)

InitLogcat == LogcatIdle /\ NonLogcatIdle

SpecLogcat == InitLogcat /\ [][LogcatSteps]_vars

\* the live adb logcat children of a device
LiveLogcat(d) == { c \in LogcatChildren : lchild[c].dev = d /\ lchild[c].state = "alive" }

\* C2: whatever start_logcat_stream and stop_logcat_stream calls are made,
\* each device has at most one live logcat child at any moment, that child is
\* the one registered for the device, and once the reader of a later child
\* has emitted a batch every earlier child of the same device is dead (it was
\* killed before the later child was spawned).
C2_OneLiveChild ==
    /\ \A d \in Devices :
          /\ Cardinality(LiveLogcat(d)) <= 1
          /\ \A c \in LiveLogcat(d) : streams[d] = c
    /\ \A i \in DOMAIN logcat_events :
          \A c \in LogcatChildren :
             (c < logcat_events[i].child /\ lchild[c].dev = logcat_events[i].dev) =>
                lchild[c].state # "alive"

\* a second start for the same device killed the first child, and the second
\* child's reader has emitted a batch after one of the first child's
C2_Witness ==
    /\ lchild[1].dev = "d1" /\ lchild[1].state = "killed"
    /\ lchild[2].dev = "d1" /\ lchild[2].state = "alive"
    /\ \E i, j \in DOMAIN logcat_events :
          i < j /\ logcat_events[i].child = 1 /\ logcat_events[j].child = 2

(***************************************************************************)
(* services/scrcpy.rs: sync_session.                                       *)
(***************************************************************************)
SpsUnit == <<0, 0, 0, 1, 103, 66>>
PpsUnit == <<0, 0, 0, 1, 104, 206>>
IdrUnit == <<0, 0, 0, 1, 101, 136>>
DeltaUnit == <<0, 0, 0, 1, 65, 154>>

\* what the server of the session sends while viewers ask for a sync
SyncStreams ==
    {<<SpsUnit, PpsUnit, IdrUnit, DeltaUnit>>, <<SpsUnit, IdrUnit, SpsUnit, DeltaUnit>>}

SyncHolder(c) == [kind |-> "sync", id |-> c]

\* format!("scrcpy-sync-{}-{}", window_label, sanitized_id)
sync_event(window_label, device_id) == <<"scrcpy-sync", window_label, device_id>>

\* sync_session: SCRCPY_SESSIONS.lock() and sessions.get(device_id); without a
\* session the call returns Ok at once
sync_session_lock(c, device_id, window_label) ==
    /\ sync_call[c].pc = "idle"
    /\ \A b \in SyncCalls : b < c => sync_call[b].pc # "idle"
    /\ sessions_lock = Free
    /\ IF sessions[device_id] = NoSession
       THEN /\ sync_call' = [sync_call EXCEPT ![c] =
                                [NoSync EXCEPT !.dev = device_id, !.label = window_label,
                                               !.pc = "done"]]
            /\ UNCHANGED sessions_lock
       ELSE /\ sync_call' = [sync_call EXCEPT ![c] =
                                [NoSync EXCEPT !.dev = device_id, !.label = window_label,
                                               !.pc = "sps", !.session = sessions[device_id]]]
            /\ sessions_lock' = SyncHolder(c)
    /\ UNCHANGED <<sync_events, callVars, scrcpyVars, nonServiceVars>>

\* sync_session giving the registry mutex back once the three slots are cloned
sync_session_clone_unlocks(c) ==
    LET f == sync_call[c]
    IN  /\ f.pc \in {"sps", "pps", "idr"}
        /\ sync_call' = [sync_call EXCEPT ![c] =
              CASE f.pc = "sps" -> [f EXCEPT !.sps = last_sps[f.session], !.pc = "pps"]
                [] f.pc = "pps" -> [f EXCEPT !.pps = last_pps[f.session], !.pc = "idr"]
                [] f.pc = "idr" -> [f EXCEPT !.idr = last_idr[f.session], !.pc = "emit_sps"]]
        /\ sessions_lock' = IF f.pc = "idr" THEN Free ELSE sessions_lock
        /\ UNCHANGED <<sync_events, callVars, scrcpyVars, nonServiceVars>>

\* sync_session: session.last_sps.lock().clone(), then last_pps, then last_idr,
\* each under its own mutex
sync_session_clone(c) ==
    LET f == sync_call[c]
    IN  /\ f.pc \in {"sps", "pps", "idr"}
        /\ sync_call' = [sync_call EXCEPT ![c] =
              CASE f.pc = "sps" -> [f EXCEPT !.sps = last_sps[f.session], !.pc = "pps"]
                [] f.pc = "pps" -> [f EXCEPT !.pps = last_pps[f.session], !.pc = "idr"]
                [] f.pc = "idr" -> [f EXCEPT !.idr = last_idr[f.session], !.pc = "emit_sps"]]
        /\ UNCHANGED <<sessions_lock, sync_events, callVars, scrcpyVars, nonServiceVars>>

SyncEmitted(c, slot, data) ==
    IF data = <<>>
    THEN sync_events
    ELSE Append(sync_events, [channel |-> sync_event(sync_call[c].label, sync_call[c].dev),
                              call |-> c, slot |-> slot, data |-> data])

\* sync_session: if let Some(..) = sps { emit }, then pps, then idr; the call
\* returns after the third and the registry mutex is released
sync_session_emit(c) ==
    LET f == sync_call[c]
    IN  /\ f.pc \in {"emit_sps", "emit_pps", "emit_idr"}
        /\ CASE f.pc = "emit_sps" ->
                  /\ sync_events' = SyncEmitted(c, "sps", f.sps)
                  /\ sync_call' = [sync_call EXCEPT ![c].pc = "emit_pps"]
                  /\ UNCHANGED sessions_lock
             [] f.pc = "emit_pps" ->
                  /\ sync_events' = SyncEmitted(c, "pps", f.pps)
                  /\ sync_call' = [sync_call EXCEPT ![c].pc = "emit_idr"]
                  /\ UNCHANGED sessions_lock
             [] f.pc = "emit_idr" ->
                  /\ sync_events' = SyncEmitted(c, "idr", f.idr)
                  /\ sync_call' = [sync_call EXCEPT ![c].pc = "done"]
                  /\ sessions_lock' = IF sessions_lock = SyncHolder(c) THEN Free
                                      ELSE sessions_lock
        /\ UNCHANGED <<callVars, scrcpyVars, nonServiceVars>>

InitSync == InitReader(SyncStreams) /\ NonScrcpyIdle

NextSync ==
    \/ \E s \in Sessions : decode_and_stream(s)
    \/ \E s \in Sessions : ServerExit(s)
    \/ \E c \in SyncCalls, d \in Devices, l \in Labels : sync_session_lock(c, d, l)
    \/ \E c \in SyncCalls : sync_session_clone(c)
    \/ \E c \in SyncCalls : sync_session_emit(c)

SpecSync == InitSync /\ [][NextSync]_vars

\* the events delivered on one channel, in order
OnChannel(ch) == SelectSeq(sync_events, LAMBDA e : e.channel = ch)

SlotRank(slot) == CASE slot = "sps" -> 1 [] slot = "pps" -> 2 [] slot = "idr" -> 3

\* the slots a sync call found cached
CachedSlots(c) ==
    {x \in {[slot |-> "sps", data |-> sync_call[c].sps],
            [slot |-> "pps", data |-> sync_call[c].pps],
            [slot |-> "idr", data |-> sync_call[c].idr]} : x.data # <<>>}

\* C5: on every scrcpy-sync-<label>-<device> channel the events of one
\* sync_session call are next to each other, with no event of another call
\* between them, and in the order SPS, PPS, IDR; a finished call has emitted
\* exactly the slots it found cached, each with the cached bytes, and a slot
\* that was not cached is skipped.  This holds while the video reader runs and
\* while other sync calls are made.
C5_SyncOrder ==
    /\ \A ch \in { sync_events[i].channel : i \in DOMAIN sync_events } :
          LET E == OnChannel(ch)
          IN  \A i, j \in DOMAIN E :
                 (i < j /\ E[i].call = E[j].call) =>
                    /\ \A k \in i..j : E[k].call = E[i].call
                    /\ SlotRank(E[i].slot) < SlotRank(E[j].slot)
    /\ \A c \in SyncCalls :
          sync_call[c].pc = "done" =>
             { [slot |-> sync_events[i].slot, data |-> sync_events[i].data] :
                  i \in { k \in DOMAIN sync_events : sync_events[k].call = c } }
                = CachedSlots(c)

\* while the reader was streaming, one viewer synced when only the SPS was
\* cached and later synced again, on the same channel, with all three cached
C5_Witness ==
    /\ sync_call[1].pc = "done" /\ sync_call[2].pc = "done"
    /\ sync_call[1].label = sync_call[2].label /\ sync_call[1].dev = sync_call[2].dev
    /\ Len(OnChannel(sync_event(sync_call[1].label, sync_call[1].dev))) = 4
    /\ { sync_events[i].slot : i \in { k \in DOMAIN sync_events : sync_events[k].call = 1 } }
          = {"sps"}
    /\ frames["d1"] # <<>> /\ rpc[1] # "exit"

(***************************************************************************)
(* services/scrcpy.rs: start_server and stop_server.                       *)
(***************************************************************************)
\* what a server started by start_server sends: an SPS and a first frame
ServiceStreams == {<<<<0, 0, 1, 103, 66>>, <<0, 0, 1, 65>>>>}

\* the session objects not yet created
FreeSessions == { s \in Sessions : session_dev[s] = "none" }

\* the commands of commands/scrcpy.rs are synchronous: one runs at a time
NoCommand == start_call.pc = "idle" /\ stop_call.pc = "idle"

\* adb shell pkill -f scrcpy on a device: when it has an effect, the scrcpy
\* servers on the device die, their adb shell children exit and their video
\* sockets close
PkillServers(device_id, hit) ==
    [s \in Sessions |->
        IF hit /\ session_dev[s] = device_id /\ server_process[s] = "alive"
        THEN "exited" ELSE server_process[s]]

PkillPeers(device_id, hit) ==
    [s \in Sessions |->
        IF hit /\ session_dev[s] = device_id /\ peer[s] = "open"
        THEN "closed" ELSE peer[s]]

\* start_server: pkill -f scrcpy with its result ignored, push_scrcpy_server
\* and adb forward, each of which can return Err
start_server_prepare(device_id) ==
    /\ NoCommand
    /\ FreeSessions # {}
    /\ \E hit \in BOOLEAN :
          /\ server_process' = PkillServers(device_id, hit)
          /\ peer' = PkillPeers(device_id, hit)
          /\ \E pkill \in IF hit THEN {"ok"} ELSE {"ok", "failed"} :
                \/ \E code \in {"SERVER_NOT_FOUND", "PUSH_FAILED", "FORWARD_FAILED"} :
                      start_call' = [NoStart EXCEPT !.dev = device_id, !.pkill = pkill,
                                                    !.result = "Err", !.code = code]
                \/ start_call' = [NoStart EXCEPT !.dev = device_id, !.pkill = pkill,
                                                 !.pc = "spawn"]
    /\ stop_call' = NoStop
    /\ UNCHANGED <<sessions, session_dev, streaming, cacheVars, rpc, socket, nal_buffer,
                   nal_data, frames, units, sessions_lock, sync_call, sync_events,
                   nonServiceVars>>

\* start_server: spawn adb shell ... com.genymobile.scrcpy.Server; Err on failure
start_server_spawn ==
    /\ start_call.pc = "spawn"
    /\ \/ /\ start_call' = [start_call EXCEPT !.pc = "idle", !.result = "Err",
                                              !.code = "SERVER_START_FAILED"]
          /\ UNCHANGED <<session_dev, server_process>>
       \/ LET s == Min(FreeSessions)
          IN  /\ session_dev' = [session_dev EXCEPT ![s] = start_call.dev]
              /\ server_process' = [server_process EXCEPT ![s] = "alive"]
              /\ start_call' = [start_call EXCEPT !.pc = "connect", !.session = s]
    /\ UNCHANGED <<sessions, streaming, cacheVars, readerVars, sessions_lock, sync_call,
                   sync_events, stop_call, nonServiceVars>>

\* start_server: connect the video socket (10 attempts) and the control
\* socket (5 attempts); SOCKET_ERROR or CONTROL_SOCKET_ERROR returns Err and
\* drops the server child without killing it
start_server_connect ==
    /\ start_call.pc = "connect"
    /\ \/ /\ \E code \in {"SOCKET_ERROR", "CONTROL_SOCKET_ERROR"} :
                start_call' = [start_call EXCEPT !.pc = "idle", !.result = "Err",
                                                 !.code = code]
          /\ UNCHANGED <<peer, units, socket>>
       \/ /\ server_process[start_call.session] = "alive"
          /\ peer' = [peer EXCEPT ![start_call.session] = "open"]
          /\ \E us \in ServiceStreams :
                /\ units' = [units EXCEPT ![start_call.session] = us]
                /\ socket' = [socket EXCEPT ![start_call.session] = Flatten(us)]
          /\ start_call' = [start_call EXCEPT !.pc = "insert"]
    /\ UNCHANGED <<sessionVars, cacheVars, rpc, nal_buffer, nal_data, frames, sessions_lock,
                   sync_call, sync_events, stop_call, nonServiceVars>>

\* start_server: streaming = true; under the registry mutex,
\* sessions.insert(device_id, session): an existing entry is replaced and the
\* replaced session is dropped (its Child is not killed, its flag not cleared)
start_server_insert ==
    /\ start_call.pc = "insert"
    /\ sessions_lock = Free
    /\ streaming' = [streaming EXCEPT ![start_call.session] = TRUE]
    /\ sessions' = [sessions EXCEPT ![start_call.dev] = start_call.session]
    /\ start_call' = [start_call EXCEPT !.pc = "thread"]
    /\ UNCHANGED <<session_dev, server_process, cacheVars, readerVars, sessions_lock,
                   sync_call, sync_events, stop_call, nonServiceVars>>

\* start_server: thread::spawn(decode_and_stream); Ok(status)
start_server_thread ==
    /\ start_call.pc = "thread"
    /\ rpc' = [rpc EXCEPT ![start_call.session] = "name"]
    /\ start_call' = [start_call EXCEPT !.pc = "idle", !.result = "Ok"]
    /\ UNCHANGED <<sessionVars, cacheVars, socket, peer, nal_buffer, nal_data, frames, units,
                   sessions_lock, sync_call, sync_events, stop_call, nonServiceVars>>

\* stop_server clearing the flag and killing the child of a session it leaves
\* in the registry
stop_server_remove_get(device_id) ==
    /\ NoCommand
    /\ sessions_lock = Free
    /\ LET s == sessions[device_id]
       IN  IF s = NoSession
           THEN UNCHANGED <<streaming, server_process>>
           ELSE /\ streaming' = [streaming EXCEPT ![s] = FALSE]
                /\ server_process' = [server_process EXCEPT ![s] =
                                         IF @ = "alive" THEN "killed" ELSE @]
    /\ stop_call' = [dev |-> device_id, pc |-> "cleanup", session |-> sessions[device_id],
                     result |-> "none"]
    /\ start_call' = NoStart
    /\ UNCHANGED <<sessions, session_dev, cacheVars, readerVars, sessions_lock, sync_call,
                   sync_events, nonServiceVars>>

\* stop_server, under the registry mutex: remove the session, clear its
\* streaming flag, kill its server child
stop_server_remove(device_id) ==
    /\ NoCommand
    /\ sessions_lock = Free
    /\ LET s == sessions[device_id]
       IN  IF s = NoSession
           THEN UNCHANGED <<sessions, streaming, server_process>>
           ELSE /\ sessions' = [sessions EXCEPT ![device_id] = NoSession]
                /\ streaming' = [streaming EXCEPT ![s] = FALSE]
                /\ server_process' = [server_process EXCEPT ![s] =
                                         IF @ = "alive" THEN "killed" ELSE @]
    /\ stop_call' = [dev |-> device_id, pc |-> "cleanup", session |-> sessions[device_id],
                     result |-> "none"]
    /\ start_call' = NoStart
    /\ UNCHANGED <<session_dev, cacheVars, readerVars, sessions_lock, sync_call,
                   sync_events, nonServiceVars>>

\* stop_server: adb forward --remove-all and pkill -f scrcpy, results ignored;
\* Ok(())
stop_server_cleanup ==
    /\ stop_call.pc = "cleanup"
    /\ \E hit \in BOOLEAN :
          /\ server_process' = PkillServers(stop_call.dev, hit)
          /\ peer' = PkillPeers(stop_call.dev, hit)
    /\ stop_call' = [stop_call EXCEPT !.pc = "idle", !.result = "Ok"]
    /\ UNCHANGED <<sessions, session_dev, streaming, cacheVars, rpc, socket, nal_buffer,
                   nal_data, frames, units, sessions_lock, sync_call, sync_events,
                   start_call, nonServiceVars>>

InitService == ScrcpyIdle /\ NonScrcpyIdle

NextService ==
    \/ \E d \in Devices : start_server_prepare(d)
    \/ start_server_spawn
    \/ start_server_connect
    \/ start_server_insert
    \/ start_server_thread
    \/ \E d \in Devices : stop_server_remove(d)
    \/ stop_server_cleanup
    \/ \E s \in Sessions : decode_and_stream(s)
    \/ \E s \in Sessions : ServerExit(s)

SpecService == InitService /\ [][NextService]_vars

\* the session objects of a device whose server child is alive
LiveServers(d) == { s \in Sessions : session_dev[s] = d /\ server_process[s] = "alive" }

\* the session objects of a device whose decode_and_stream thread is running
RunningReaders(d) == { s \in Sessions : session_dev[s] = d /\ rpc[s] \notin {"idle", "exit"} }

\* C10: start_server never replaces the registered session of a device whose
\* streaming flag is set (an entry only changes from absent to a session or
\* from a session to absent), and at every moment a device has at most one
\* live scrcpy server child and at most one running video reader thread.
C10_NoReplace ==
    /\ [][\A d \in Devices :
            (sessions[d] # NoSession /\ streaming[sessions[d]] /\ sessions'[d] # sessions[d])
               => sessions'[d] = NoSession]_vars
    /\ [](\A d \in Devices :
            /\ Cardinality(LiveServers(d)) <= 1
            /\ Cardinality(RunningReaders(d)) <= 1)

(***************************************************************************)
(* lib.rs: the RunEvent::Exit handler.                                     *)
(***************************************************************************)
\* the Exit handler, first block: under the logcat mutex, drain the streams
\* and kill every child
exit_handler_drain ==
    /\ app_phase = "running"
    /\ logcat_call = NoCall
    /\ lchild' = [c \in LogcatChildren |->
                    IF \E d \in Devices : streams[d] = c
                    THEN Killed(lchild, c)[c] ELSE lchild[c]]
    /\ streams' = [d \in Devices |-> 0]
    /\ app_phase' = "drained"
    /\ UNCHANGED <<logcat_call, lpipe, lwritten, lreader, lbatch, logcat_events,
                   scrcpyVars, trackerVars, nonAppVars>>

\* the Exit handler, second block: let _ = executor.kill_server(); when the
\* adb server dies, the adb client processes connected to it exit and the
\* forwarded sockets close; then the handler returns
exit_handler_kill_server ==
    /\ app_phase = "drained"
    /\ \E ok \in BOOLEAN :
          /\ track_child' = IF ok /\ track_child = "alive" THEN "exited" ELSE track_child
          /\ server_process' = [s \in Sessions |->
                                  IF ok /\ server_process[s] = "alive"
                                  THEN "exited" ELSE server_process[s]]
          /\ peer' = [s \in Sessions |-> IF ok /\ peer[s] = "open" THEN "closed" ELSE peer[s]]
          /\ lchild' = [c \in LogcatChildren |->
                          IF ok /\ lchild[c].state = "alive"
                          THEN [lchild[c] EXCEPT !.state = "exited"] ELSE lchild[c]]
    /\ app_phase' = "returned"
    /\ UNCHANGED <<sessions, session_dev, streaming, cacheVars, rpc, socket, nal_buffer,
                   nal_data, frames, units, running, last_devices, world, world_changes,
                   wpc, listed, since_emit, device_events, streams, logcat_call, lpipe,
                   lwritten, lreader, lbatch, logcat_events, nonAppVars>>

\* the process ends after the handler has returned; its threads end with it,
\* the children it did not kill do not
ProcessExit ==
    /\ app_phase = "returned"
    /\ app_phase' = "exited"
    /\ wpc' = [w \in Workers |-> IF wpc[w] = "idle" THEN "idle" ELSE "exit"]
    /\ rpc' = [s \in Sessions |-> IF rpc[s] = "idle" THEN "idle" ELSE "exit"]
    /\ lreader' = [c \in LogcatChildren |-> IF lreader[c] = "running" THEN "done"
                                            ELSE lreader[c]]
    /\ UNCHANGED <<sessionVars, cacheVars, socket, peer, nal_buffer, nal_data, frames, units,
                   running, last_devices, world, world_changes, listed, since_emit,
                   track_child, device_events, streams, logcat_call, lchild, lpipe,
                   lwritten, lbatch, logcat_events, nonAppVars>>

\* the application with its tracker started, a scrcpy session on d1 and a
\* logcat stream on d1 whose child has written a line
InitShutdown ==
    /\ InitReader(ServiceStreams)
    /\ RunnerIdle /\ ServiceIdle /\ AppRunning /\ OtherIdle
    /\ running = TRUE
    /\ last_devices = <<>>
    /\ world = <<PixelAuthorized>>
    /\ world_changes = 0
    /\ wpc = [w \in Workers |-> "loop"]
    /\ listed = [w \in Workers |-> <<>>]
    /\ since_emit = "ge"
    /\ track_child = "none"
    /\ device_events = <<>>
    /\ streams = [d \in Devices |-> IF d = "d1" THEN 1 ELSE 0]
    /\ logcat_call = NoCall
    /\ lchild = [c \in LogcatChildren |->
                   IF c = 1 THEN [dev |-> "d1", state |-> "alive"]
                   ELSE [dev |-> "none", state |-> "unborn"]]
    /\ lpipe = [c \in LogcatChildren |-> IF c = 1 THEN 1 ELSE 0]
    /\ lwritten = 1
    /\ lreader = [c \in LogcatChildren |-> IF c = 1 THEN "running" ELSE "none"]
    /\ lbatch = [c \in LogcatChildren |-> 0]
    /\ logcat_events = <<>>

NextShutdown ==
    \/ exit_handler_drain
    \/ exit_handler_kill_server
    \/ ProcessExit
    \/ \E s \in Sessions : decode_and_stream(s)
    \/ \E c \in LogcatChildren : logcat_reader_line(c)
    \/ \E c \in LogcatChildren : logcat_reader_end(c)
    \/ \E w \in Workers : emit_if_changed_list(w)
    \/ \E w \in Workers : emit_if_changed_compare(w)
    \/ run_tracker_spawn
    \/ run_tracker_line
    \/ run_tracker_after
    \/ heartbeat_sleep
    \/ heartbeat_wake
    \/ DebounceElapses

SpecShutdown == InitShutdown /\ [][NextShutdown]_vars

\* the Exit handler has run to its end
ShutdownReturned == app_phase \in {"returned", "exited"}

\* C6: once the Exit handler has run, every scrcpy session's streaming flag
\* is false and its server child is no longer alive, every logcat child is
\* no longer alive, and both registries are empty.
C6_AllSessionsDrained ==
    ShutdownReturned =>
       /\ \A s \in Sessions : session_dev[s] # "none" =>
             ~streaming[s] /\ server_process[s] # "alive"
       /\ \A c \in LogcatChildren : lchild[c].state # "alive"
       /\ \A d \in Devices : sessions[d] = NoSession /\ streams[d] = 0

\* C7: after the Exit handler has returned no device-changed, logcat-line-*
\* or scrcpy-frame-* event is emitted any more.
C7_NoEventAfterShutdown ==
    [][ShutdownReturned =>
          /\ device_events' = device_events
          /\ logcat_events' = logcat_events
          /\ frames' = frames]_vars

(***************************************************************************)
(* services/scrcpy.rs: stop_server and get_status with a session on each   *)
(* device.                                                                 *)
(***************************************************************************)
\* get_status: running is whether the registry has an entry for the device
get_status(device_id) ==
    IF sessions[device_id] # NoSession
    THEN [running |-> TRUE, device_id |-> device_id, port |-> 27183]
    ELSE [running |-> FALSE, device_id |-> "none", port |-> None]

\* start_server has returned Ok for d1 and for d2
InitStop ==
    /\ sessions = [d \in Devices |-> IF d = "d1" THEN 1 ELSE 2]
    /\ session_dev = [s \in Sessions |-> IF s = 1 THEN "d1" ELSE IF s = 2 THEN "d2" ELSE "none"]
    /\ streaming = [s \in Sessions |-> s \in {1, 2}]
    /\ server_process = [s \in Sessions |-> IF s \in {1, 2} THEN "alive" ELSE "none"]
    /\ last_sps = [s \in Sessions |-> <<>>]
    /\ last_pps = [s \in Sessions |-> <<>>]
    /\ last_idr = [s \in Sessions |-> <<>>]
    /\ rpc = [s \in Sessions |-> IF s \in {1, 2} THEN "name" ELSE "idle"]
    /\ peer = [s \in Sessions |-> IF s \in {1, 2} THEN "open" ELSE "none"]
    /\ nal_buffer = [s \in Sessions |-> <<>>]
    /\ nal_data = [s \in Sessions |-> <<>>]
    /\ frames = [d \in Devices |-> <<>>]
    /\ \E us \in ServiceStreams :
          /\ units = [s \in Sessions |-> IF s \in {1, 2} THEN us ELSE <<>>]
          /\ socket = [s \in Sessions |-> IF s \in {1, 2} THEN Flatten(us) ELSE <<>>]
    /\ NonScrcpyIdle

NextStop ==
    \/ \E d \in Devices : stop_server_remove(d)
    \/ stop_server_cleanup
    \/ \E s \in Sessions : decode_and_stream(s)
    \/ \E s \in Sessions : ServerExit(s)

SpecStop == InitStop /\ [][NextStop]_vars

\* C11: when stop_server(device) has returned, it returned Ok, the device has
\* no entry in the registry, get_status(device) reports running = false, and
\* the session it removed (if the device had one) has its streaming flag
\* false and its server child no longer alive; a step of stop_server changes
\* neither the registry entry nor the flag of another device's session, and
\* kills no other device's server child.
C11_StopServer ==
    /\ [](stop_call.pc = "idle" /\ stop_call.dev # "none" =>
             /\ stop_call.result = "Ok"
             /\ sessions[stop_call.dev] = NoSession
             /\ ~get_status(stop_call.dev).running
             /\ stop_call.session # NoSession =>
                   /\ ~streaming[stop_call.session]
                   /\ server_process[stop_call.session] # "alive")
    /\ [][stop_call' # stop_call =>
            \A d \in Devices \ {stop_call'.dev} :
               /\ sessions'[d] = sessions[d]
               /\ \A s \in Sessions : session_dev[s] = d =>
                     /\ streaming'[s] = streaming[s]
                     /\ server_process'[s] = server_process[s]]_vars

\* stop_server(d1) has returned after removing session 1 while the session of
\* d2 is still registered, streaming and served; then also a stop_server on
\* the device that no longer has a session has returned
C11_Witness ==
    /\ stop_call = [dev |-> "d1", pc |-> "idle", session |-> NoSession, result |-> "Ok"]
    /\ server_process[1] = "killed" /\ ~streaming[1]
    /\ sessions["d2"] = 2 /\ streaming[2] /\ server_process[2] = "alive"
    /\ frames["d2"] # <<>>

\* C12: a failing startup step makes the attempt fail and leaves no session:
\* start_server does not return Ok when its pkill of a prior instance failed;
\* an attempt that returned Err after it had spawned the server has not
\* registered its session; and when the 64-byte device-name read or the
\* 12-byte codec-header read fails, the session of that attempt is not in the
\* registry and the attempt was not reported as Ok.
C12_StartupFailure ==
    /\ [][\A s \in Sessions :
            (rpc[s] \in {"name", "header"} /\ rpc'[s] = "exit") =>
               /\ sessions'[session_dev[s]] # s
               /\ ~(start_call'.session = s /\ start_call'.result = "Ok")]_vars
    /\ [](/\ start_call.result = "Ok" => start_call.pkill # "failed"
          /\ (start_call.result = "Err" /\ start_call.session # NoSession) =>
                sessions[start_call.dev] # start_call.session)

(***************************************************************************)
(* SpecFrames: one session whose server sends MaxUnits + 1 short units, so *)
(* that MaxUnits of them can be emitted (the last one stays in the         *)
(* accumulator), received in chunks of any size; the server may exit and   *)
(* the connection may break at any point.                                  *)
(***************************************************************************)
FrameUnits == { sc \o <<h>> : sc \in StartCodes, h \in {103, 65} }

InitFrames == InitReader([1..(MaxUnits + 1) -> FrameUnits]) /\ NonScrcpyIdle

NextFrames ==
    \E s \in Sessions :
        \/ decode_and_stream(s)
        \/ ServerExit(s)
        \/ SocketReset(s)

SpecFrames == InitFrames /\ [][NextFrames]_vars

\* C13: within one session the frame events carry the extracted NAL units in
\* arrival order, each exactly once: the units emitted so far are always the
\* first ones that arrived, in their order; a unit extracted and not yet
\* emitted is the next one in arrival order; and the session's event stream
\* only ever grows by the unit just extracted, appended at its end.
C13_FrameOrder ==
    /\ [](\A s \in Sessions :
            /\ IsPrefix(NalsOf(s), units[s])
            /\ rpc[s] = "emit" =>
                  /\ Len(NalsOf(s)) < Len(units[s])
                  /\ nal_data[s] = units[s][Len(NalsOf(s)) + 1])
    /\ [][\A s \in Sessions :
            NalsOf(s)' # NalsOf(s) =>
               /\ rpc[s] = "emit"
               /\ NalsOf(s)' = Append(NalsOf(s), nal_data[s])]_vars

\* MaxUnits units were emitted one after the other, the first before the second
C13_Witness ==
    /\ Len(NalsOf(1)) = MaxUnits
    /\ NalsOf(1) = SubSeq(units[1], 1, MaxUnits)
    /\ units[1][1] # units[1][2]
    /\ rpc[1] = "exit"

(***************************************************************************)
(* commands/scrcpy.rs: scrcpy_touch; services/scrcpy.rs:                   *)
(* send_control_event.  Integers keep the width of their Rust types.       *)
(***************************************************************************)
\* u32::to_be_bytes, u64::to_be_bytes, u16::to_be_bytes: the n bytes of v,
\* most significant first
RECURSIVE to_be_bytes(_, _)
to_be_bytes(v, n) ==
    IF n = 0 THEN <<>> ELSE to_be_bytes(v \div 256, n - 1) \o <<v % 256>>

\* `width as u16`: the low 16 bits of a u32
as_u16(v) == v % 65536

\* touch_data with the fields in the order x, y, height, width
touch_data_swapped(action, x, y, width, height) ==
    <<action>> \o to_be_bytes(0, 8) \o to_be_bytes(x, 4) \o to_be_bytes(y, 4)
        \o to_be_bytes(as_u16(height), 2) \o to_be_bytes(as_u16(width), 2)
        \o to_be_bytes(65535, 2) \o to_be_bytes(0, 4) \o to_be_bytes(0, 4)

\* the data vector scrcpy_touch builds
touch_data(action, x, y, width, height) ==
    <<action>> \o to_be_bytes(0, 8) \o to_be_bytes(x, 4) \o to_be_bytes(y, 4)
        \o to_be_bytes(as_u16(width), 2) \o to_be_bytes(as_u16(height), 2)
        \o to_be_bytes(65535, 2) \o to_be_bytes(0, 4) \o to_be_bytes(0, 4)

\* the message send_control_event builds: [Type (1 byte)] + [Data]
control_message(event_type, data) == <<event_type>> \o data

\* bytes the control socket takes before the server has read any
SocketCapacity == 32

\* the arguments the model calls scrcpy_touch with (x and y up to the largest
\* integer of the model checker, 2^31 - 1)
TouchActions == {0, 2}
TouchXs == {100, 2147483647}
TouchYs == {200, 2147483647}
TouchWidths == {720, 66256}
TouchHeights == {1280, 65535}

\* scrcpy_touch(device_id, action, x, y, width, height), a synchronous command:
\* send_control_event holds the registry mutex and the socket mutex for the
\* whole write.  Without a session nothing is written and the call returns
\* Ok; write_all either writes the whole message or fails after part of it.
scrcpy_touch(device_id, action, x, y, width, height) ==
    /\ LET s       == sessions[device_id]
           message == control_message(2, touch_data(action, x, y, width, height))
           frame   == [dev |-> device_id, action |-> action, x |-> x, y |-> y,
                       width |-> width, height |-> height, result |-> "Ok"]
       IN  \/ /\ s = NoSession
              /\ touch_call' = frame
              /\ UNCHANGED control
           \/ /\ s # NoSession
              /\ Len(control[s]) + Len(message) <= SocketCapacity
              /\ \/ /\ control' = [control EXCEPT ![s] = @ \o message]
                    /\ touch_call' = frame
                 \/ \E k \in 0..(Len(message) - 1) :
                       /\ control' = [control EXCEPT ![s] = @ \o SubSeq(message, 1, k)]
                       /\ touch_call' = [frame EXCEPT !.result = "CONTROL_WRITE_FAILED"]
    /\ UNCHANGED nonControlVars

\* the scrcpy server reads what the control socket holds
ControlServerReads(s) ==
    /\ control[s] # <<>>
    /\ control' = [control EXCEPT ![s] = <<>>]
    /\ UNCHANGED <<touch_call, nonControlVars>>

InitControl ==
    /\ InitReader({<<>>})
    /\ ControlIdle /\ NonControlIdle

NextControl ==
    \/ \E d \in Devices, a \in TouchActions, x \in TouchXs, y \in TouchYs,
         w \in TouchWidths, h \in TouchHeights : scrcpy_touch(d, a, x, y, w, h)
    \/ \E s \in Sessions : ControlServerReads(s)

SpecControl == InitControl /\ [][NextControl]_vars

\* the value of a big-endian field
RECURSIVE from_be(_)
from_be(bytes) ==
    IF bytes = <<>> THEN 0
    ELSE 256 * from_be(SubSeq(bytes, 1, Len(bytes) - 1)) + bytes[Len(bytes)]

\* the bytes a scrcpy_touch call added to the control socket of its device
Written(s) == SubSeq(control'[s], Len(control[s]) + 1, Len(control'[s]))

\* C14: a scrcpy_touch call that returns Ok on a device with a session has
\* written exactly 32 bytes to its control socket: type 0x02, the action,
\* eight 0 bytes of pointer id, x and y as 4-byte big-endian values, width and
\* height as 2-byte big-endian values (their low 16 bits), pressure FF FF,
\* four 0 bytes of action_button and four 0 bytes of buttons; and for
\* (0, 100, 200, 720, 1280) the bytes are those of the spec's example.
C14_TouchMessage ==
    [][(touch_call' # touch_call \/ control' # control) =>
        \/ \E s \in Sessions : control[s] # <<>> /\ control'[s] = <<>>
        \/ LET c == touch_call'
               s == sessions[c.dev]
           IN  /\ s = NoSession => control' = control
               /\ (s # NoSession /\ c.result = "Ok") =>
                    LET m == Written(s)
                    IN  /\ Len(m) = 32
                        /\ m[1] = 2
                        /\ m[2] = c.action
                        /\ SubSeq(m, 3, 10) = <<0, 0, 0, 0, 0, 0, 0, 0>>
                        /\ from_be(SubSeq(m, 11, 14)) = c.x
                        /\ from_be(SubSeq(m, 15, 18)) = c.y
                        /\ from_be(SubSeq(m, 19, 20)) = c.width % 65536
                        /\ from_be(SubSeq(m, 21, 22)) = c.height % 65536
                        /\ SubSeq(m, 23, 24) = <<255, 255>>
                        /\ SubSeq(m, 25, 32) = <<0, 0, 0, 0, 0, 0, 0, 0>>
                        /\ \A t \in Sessions \ {s} : control'[t] = control[t]
                        /\ (c.action = 0 /\ c.x = 100 /\ c.y = 200 /\ c.width = 720
                              /\ c.height = 1280) =>
                              m = <<2, 0, 0, 0, 0, 0, 0, 0, 0, 0, 0, 0, 0, 100,
                                    0, 0, 0, 200, 2, 208, 5, 0, 255, 255,
                                    0, 0, 0, 0, 0, 0, 0, 0>>]_vars

\* the example call was made and its 32 bytes are in the control socket
C14_Witness ==
    /\ touch_call = [dev |-> "d1", action |-> 0, x |-> 100, y |-> 200, width |-> 720,
                     height |-> 1280, result |-> "Ok"]
    /\ Len(control[1]) = 32
    /\ SubSeq(control[1], 11, 22) = <<0, 0, 0, 100, 0, 0, 0, 200, 2, 208, 5, 0>>

(***************************************************************************)
(* adb/agent_manager.rs: AgentManager::start_agent, ensure_agent,          *)
(* send_command, list_files_fast.  The calls are async and may run         *)
(* concurrently; each has its own frame.                                   *)
(***************************************************************************)
\* the path arguments of the calls, character by character
Paths == {<<"a">>, <<"\n", "a">>}

\* serde_json's string serialisation: quotes around the escaped characters
escape(ch) ==
    CASE ch = "\n" -> <<"\\", "n">>
      [] ch = "\"" -> <<"\\", "\"">>
      [] ch = "\\" -> <<"\\", "\\">>
      [] OTHER     -> <<ch>>

json_string(chars) ==
    <<"\"">> \o Flatten([i \in 1..Len(chars) |-> escape(chars[i])]) \o <<"\"">>

\* json!({"type": cmd_type, "data": {"path": path}}).to_string() + '\n'
\* (serde_json writes the members of an object in key order)
request_str(cmd_type, path) ==
    <<"{\"data\":{\"path\":">> \o json_string(path) \o <<"},\"type\":">>
        \o json_string(<<cmd_type>>) \o <<"}", "\n">>

\* what the peer may send as its response line: a JSON value or other text
Line(v) == [json |-> TRUE, value |-> v]
Responses ==
    << Line(Obj(<< <<"data", Obj(<< <<"files", Arr(<<Str("a.txt")>>)>> >>)>> >>)),
       Line(Obj(<< <<"data", Obj(<< <<"files", Arr(<<>>)>> >>)>> >>)),
       Line(Obj(<< <<"data", Obj(<< <<"files", Null>> >>)>> >>)),
       Line(Obj(<< <<"data", Obj(<< <<"count", Str("0")>> >>)>> >>)),
       Line(Obj(<< <<"data", Null>> >>)),
       Line(Obj(<< <<"error", Str("denied")>> >>)),
       Line(Obj(<< <<"data", Arr(<<Str("files")>>)>> >>)),
       Line(Obj(<< <<"data", Obj(<< <<"files", Str("none")>> >>)>> >>)),
       [json |-> FALSE, value |-> Null] >>

\* the peer's side of a connection: nothing sent yet, a response line sent
\* (its index in Responses), end of stream, or a reset
Silent == 0
Eof == -1
Reset == -2

\* impl Index<&str> for Value: the member of an object, Null for anything else
Index(v, key) ==
    IF \E i \in 1..Len(v.o) : v.o[i][1] = key
    THEN v.o[CHOOSE i \in 1..Len(v.o) : v.o[i][1] = key][2]
    ELSE Null

\* list_files_fast returning resp["data"]["files"] as it is
list_files_fast_raw(resp) == Index(Index(resp, "data"), "files")

\* list_files_fast: resp["data"]["files"], with [] in place of null
list_files_fast_files(resp) ==
    LET data == Index(Index(resp, "data"), "files")
    IN  IF data.t = "null" THEN Arr(<<>>) ELSE data

Conn(c) == [owner |-> c, state |-> "open", written |-> <<>>, lines |-> 0,
            response |-> Silent]

\* the frame of a call that returns: its stream, if it has one, is dropped
AgentReturns(c, result, value) ==
    /\ agent_call' = [agent_call EXCEPT ![c].pc = "done", ![c].result = result,
                                        ![c].value = value]
    /\ agent_conns' = IF agent_call[c].stream = NoStream THEN agent_conns
                      ELSE [agent_conns EXCEPT ![agent_call[c].stream].state = "closed"]

\* list_files_fast(device_id, path) -> send_command -> ensure_agent
list_files_fast(c, path) ==
    /\ agent_call[c].pc = "idle"
    /\ agent_call' = [agent_call EXCEPT ![c].pc = "connect", ![c].path = path]
    /\ UNCHANGED agent_conns
    /\ UNCHANGED nonAgentVars

\* ensure_agent: timeout(1 s, TcpStream::connect); anything but Ok(Ok(stream))
\* leads into start_agent
ensure_agent_connect(c) ==
    /\ agent_call[c].pc = "connect"
    /\ \/ /\ agent_conns' = Append(agent_conns, Conn(c))
          /\ agent_call' = [agent_call EXCEPT ![c].pc = "write",
                                              ![c].connects = @ + 1,
                                              ![c].stream = Len(agent_conns) + 1]
       \/ /\ agent_call' = [agent_call EXCEPT ![c].pc = "push",
                                              ![c].connects = @ + 1,
                                              ![c].starts = @ + 1]
          /\ UNCHANGED agent_conns
    /\ UNCHANGED nonAgentVars

\* start_agent: adb push of the jar; a spawn error or a non-zero status returns
start_agent_push(c) ==
    /\ agent_call[c].pc = "push"
    /\ \/ agent_call' = [agent_call EXCEPT ![c].pc = "spawn"] /\ UNCHANGED agent_conns
       \/ AgentReturns(c, "Err", Null)
    /\ UNCHANGED nonAgentVars

\* start_agent: the agent is spawned in the background
start_agent_spawn(c) ==
    /\ agent_call[c].pc = "spawn"
    /\ \/ agent_call' = [agent_call EXCEPT ![c].pc = "forward"] /\ UNCHANGED agent_conns
       \/ AgentReturns(c, "Err", Null)
    /\ UNCHANGED nonAgentVars

\* start_agent: adb forward tcp:12345 tcp:12345
start_agent_forward(c) ==
    /\ agent_call[c].pc = "forward"
    /\ \/ agent_call' = [agent_call EXCEPT ![c].pc = "sleep"] /\ UNCHANGED agent_conns
       \/ AgentReturns(c, "Err", Null)
    /\ UNCHANGED nonAgentVars

\* start_agent: sleep(1500 ms), Ok(())
start_agent_sleep(c) ==
    /\ agent_call[c].pc = "sleep"
    /\ agent_call' = [agent_call EXCEPT ![c].pc = "reconnect"]
    /\ UNCHANGED agent_conns
    /\ UNCHANGED nonAgentVars

\* ensure_agent with the second connect leading into start_agent again
ensure_agent_reconnect_again(c) ==
    /\ agent_call[c].pc = "reconnect"
    /\ \/ /\ agent_conns' = Append(agent_conns, Conn(c))
          /\ agent_call' = [agent_call EXCEPT ![c].pc = "write",
                                              ![c].connects = @ + 1,
                                              ![c].stream = Len(agent_conns) + 1]
       \/ /\ agent_call' = [agent_call EXCEPT ![c].pc = "push",
                                              ![c].connects = @ + 1,
                                              ![c].starts = @ + 1]
          /\ UNCHANGED agent_conns
    /\ UNCHANGED nonAgentVars

\* ensure_agent: timeout(2 s, TcpStream::connect); a timeout or a connect
\* error is returned
ensure_agent_reconnect(c) ==
    /\ agent_call[c].pc = "reconnect"
    /\ \/ /\ agent_conns' = Append(agent_conns, Conn(c))
          /\ agent_call' = [agent_call EXCEPT ![c].pc = "write",
                                              ![c].connects = @ + 1,
                                              ![c].stream = Len(agent_conns) + 1]
       \/ /\ agent_call' = [agent_call EXCEPT ![c].pc = "done", ![c].result = "Err",
                                              ![c].connects = @ + 1]
          /\ UNCHANGED agent_conns
    /\ UNCHANGED nonAgentVars

\* send_command: stream.write_all(request_str): the whole request, or an
\* error after part of it
send_command_write(c) ==
    /\ agent_call[c].pc = "write"
    /\ LET k   == agent_call[c].stream
           req == request_str("LIST_FILES", agent_call[c].path)
       IN  \/ /\ agent_conns' = [agent_conns EXCEPT ![k].written = @ \o req]
              /\ agent_call' = [agent_call EXCEPT ![c].pc = "read"]
           \/ \E n \in 0..(Len(req) - 1) :
                 /\ agent_conns' = [agent_conns EXCEPT
                                       ![k].written = @ \o SubSeq(req, 1, n),
                                       ![k].state = "closed"]
                 /\ agent_call' = [agent_call EXCEPT ![c].pc = "done",
                                                     ![c].result = "Err"]
    /\ UNCHANGED nonAgentVars

\* send_command: reader.read_line, awaited without a deadline, then
\* serde_json::from_str; list_files_fast picks the files out of the response
send_command_read(c) ==
    /\ agent_call[c].pc = "read"
    /\ LET k == agent_call[c].stream
           r == agent_conns[k].response
       IN  /\ r # Silent
           /\ agent_conns' = [agent_conns EXCEPT
                                 ![k].state = "closed",
                                 ![k].lines = IF r > 0 THEN @ + 1 ELSE @]
           /\ agent_call' =
                 IF r > 0 /\ Responses[r].json
                 THEN [agent_call EXCEPT ![c].pc = "done", ![c].result = "Ok",
                          ![c].value = list_files_fast_files(Responses[r].value)]
                 ELSE [agent_call EXCEPT ![c].pc = "done", ![c].result = "Err"]
    /\ UNCHANGED nonAgentVars

\* the steps of one call
AgentCallStep(c) ==
    \/ \E path \in Paths : list_files_fast(c, path)
    \/ ensure_agent_connect(c)
    \/ start_agent_push(c)
    \/ start_agent_spawn(c)
    \/ start_agent_forward(c)
    \/ start_agent_sleep(c)
    \/ ensure_agent_reconnect(c)
    \/ send_command_write(c)
    \/ send_command_read(c)

\* the peer of a connection answers the request with one line
AgentResponds(k) ==
    /\ agent_conns[k].state = "open"
    /\ agent_conns[k].response = Silent
    /\ agent_conns[k].written # <<>>
    /\ \E i \in 1..Len(Responses) :
          agent_conns' = [agent_conns EXCEPT ![k].response = i]
    /\ UNCHANGED agent_call
    /\ UNCHANGED nonAgentVars

\* the peer closes or resets the connection without a response line
AgentCloses(k) ==
    /\ agent_conns[k].state = "open"
    /\ agent_conns[k].response = Silent
    /\ \E e \in {Eof, Reset} : agent_conns' = [agent_conns EXCEPT ![k].response = e]
    /\ UNCHANGED agent_call
    /\ UNCHANGED nonAgentVars

InitAgent == AgentIdle /\ NonAgentIdle

NextAgent ==
    \/ \E c \in AgentCalls : AgentCallStep(c)
    \/ \E k \in 1..Len(agent_conns) : AgentResponds(k)
    \/ \E k \in 1..Len(agent_conns) : AgentCloses(k)

SpecAgent == InitAgent /\ [][NextAgent]_vars

\* every step of a call is eventually taken when it stays possible; the peer
\* is under no obligation
SpecAgentLive ==
    SpecAgent /\ \A c \in AgentCalls : WF_vars(AgentCallStep(c))

\* C15: for every agent request ensure_agent makes at most two connect
\* attempts and runs start_agent at most once: a call that connected at the
\* first attempt ran no preparation; a failed first connect is followed by
\* exactly one preparation and, if that succeeds, by exactly one more connect;
\* a failure of the preparation or of the second connect ends the call with
\* an error and nothing further is attempted.
C15_EnsureAgent ==
    /\ [](\A c \in AgentCalls :
            LET cl == agent_call[c]
            IN  /\ cl.connects <= 2 /\ cl.starts <= 1
                /\ cl.pc \in {"push", "spawn", "forward", "sleep", "reconnect"} =>
                      cl.connects = 1 /\ cl.starts = 1
                /\ (cl.stream # NoStream /\ cl.connects = 1) => cl.starts = 0
                /\ cl.connects = 2 => cl.starts = 1
                /\ (cl.starts = 1 /\ cl.pc \in {"write", "read"}) => cl.connects = 2)
    /\ [][\A c \in AgentCalls :
            LET cl == agent_call[c]
                nx == agent_call'[c]
            IN  /\ (cl.pc \in {"push", "spawn", "forward"} /\ nx.pc = "done") =>
                      /\ nx.result = "Err" /\ nx.stream = NoStream
                      /\ nx.connects = 1 /\ nx.starts = 1
                /\ (cl.pc = "reconnect" /\ nx.pc # "write") =>
                      /\ nx.pc \in {"reconnect", "done"}
                      /\ nx.pc = "done" =>
                            nx.result = "Err" /\ nx.stream = NoStream /\ nx.connects = 2
                /\ cl.pc = "done" => nx = cl]_vars

\* one call failed at its second connect, after one preparation; the other
\* connected at once and prepared nothing
C15_Witness ==
    /\ agent_call["c1"].pc = "done" /\ agent_call["c1"].result = "Err"
    /\ agent_call["c1"].connects = 2 /\ agent_call["c1"].starts = 1
    /\ agent_call["c2"].pc = "read"
    /\ agent_call["c2"].connects = 1 /\ agent_call["c2"].starts = 0

\* C16: every agent call terminates with a value or an error, whatever the
\* peer does, also when it accepts the connection and never sends a line.
C16_CallTerminates ==
    \A c \in AgentCalls : (agent_call[c].pc # "idle") ~> (agent_call[c].pc = "done")

\* the newline characters of a request
Newlines(w) == { i \in 1..Len(w) : w[i] = "\n" }

\* C17: each agent call has a connection of its own, writes exactly one
\* newline-terminated JSON request on it, reads exactly one response line and
\* then closes it; list_files_fast returns response.data.files when it is
\* present and not null, and [] when data or files is absent or null.
C17_OneRequestPerConnection ==
    /\ \A c \in AgentCalls :
          agent_call[c].result = "Ok" => agent_call[c].stream # NoStream
    /\ \A k \in 1..Len(agent_conns) :
          LET cn  == agent_conns[k]
              cl  == agent_call[cn.owner]
              req == request_str("LIST_FILES", cl.path)
          IN  /\ cl.stream = k
              /\ \A j \in 1..Len(agent_conns) : agent_conns[j].owner = cn.owner => j = k
              /\ cn.lines <= 1
              /\ IsPrefix(cn.written, req)
              /\ (cl.pc = "read" \/ cl.result = "Ok") =>
                    /\ cn.written = req
                    /\ Newlines(cn.written) = {Len(cn.written)}
              /\ cl.pc = "done" <=> cn.state = "closed"
              /\ cl.result = "Ok" =>
                    /\ cn.lines = 1
                    /\ cn.response > 0
                    /\ LET r == Responses[cn.response].value
                           \* where response.data.files is, if present and not null
                           At == { p \in (1..Len(r.o)) \X (1..2) :
                                     /\ r.o[p[1]][1] = "data"
                                     /\ p[2] <= Len(r.o[p[1]][2].o)
                                     /\ r.o[p[1]][2].o[p[2]][1] = "files"
                                     /\ r.o[p[1]][2].o[p[2]][2].t # "null" }
                       IN  IF At # {}
                           THEN \E p \in At : cl.value = r.o[p[1]][2].o[p[2]][2]
                           ELSE cl.value = Arr(<<>>)

\* one call got a list of files for a path holding a newline, the other got
\* a response whose data is null
C17_Witness ==
    /\ agent_call["c1"].result = "Ok" /\ agent_call["c1"].path = <<"\n", "a">>
    /\ agent_call["c1"].value = Arr(<<Str("a.txt")>>)
    /\ agent_call["c2"].result = "Ok" /\ agent_conns[agent_call["c2"].stream].response = 5
    /\ agent_call["c2"].value = Arr(<<>>)
    /\ agent_call["c1"].stream # agent_call["c2"].stream

(***************************************************************************)
(* adb/executor.rs: AdbExecutor::parse_devices_output and                  *)
(* impl From<&str> for DeviceStatus.  Text is a sequence of characters.    *)
(***************************************************************************)
\* char::is_whitespace, for the characters of the model
IsWhitespace(ch) == ch \in {" ", "\t", "\n", "\r"}

\* str::lines: the text split at every "\n", a "\r" before it removed; a
\* final newline starts no further line
RECURSIVE lines(_)
lines(text) ==
    LET nls      == { i \in 1..Len(text) : text[i] = "\n" }
        strip(l) == IF l # <<>> /\ l[Len(l)] = "\r" THEN SubSeq(l, 1, Len(l) - 1) ELSE l
    IN  IF text = <<>> THEN <<>>
        ELSE IF nls = {} THEN <<text>>
        ELSE <<strip(SubSeq(text, 1, Min(nls) - 1))>>
                \o lines(SubSeq(text, Min(nls) + 1, Len(text)))

\* str::trim
trim(l) ==
    LET keep == { i \in 1..Len(l) : ~IsWhitespace(l[i]) }
    IN  IF keep = {} THEN <<>>
        ELSE SubSeq(l, Min(keep), CHOOSE i \in keep : \A j \in keep : j <= i)

\* str::split_whitespace: the maximal runs of other characters
RECURSIVE split_whitespace(_)
split_whitespace(l) ==
    LET keep == { i \in 1..Len(l) : ~IsWhitespace(l[i]) }
    IN  IF keep = {} THEN <<>>
        ELSE LET a   == Min(keep)
                 ws  == { i \in a..Len(l) : IsWhitespace(l[i]) }
                 b   == IF ws = {} THEN Len(l) ELSE Min(ws) - 1
             IN  <<SubSeq(l, a, b)>> \o split_whitespace(SubSeq(l, b + 1, Len(l)))

\* str::to_lowercase
UpperCase == <<"A", "B", "C", "D", "E", "F", "G", "H", "I", "J", "K", "L", "M",
               "N", "O", "P", "Q", "R", "S", "T", "U", "V", "W", "X", "Y", "Z">>
LowerCase == <<"a", "b", "c", "d", "e", "f", "g", "h", "i", "j", "k", "l", "m",
               "n", "o", "p", "q", "r", "s", "t", "u", "v", "w", "x", "y", "z">>

to_lowercase(t) ==
    [i \in 1..Len(t) |->
        IF \E k \in 1..Len(UpperCase) : UpperCase[k] = t[i]
        THEN LowerCase[CHOOSE k \in 1..Len(UpperCase) : UpperCase[k] = t[i]]
        ELSE t[i]]

Status(kind, text) == [kind |-> kind, text |-> text]

\* impl From<&str> for DeviceStatus: the match is on the trimmed, lower-cased
\* string, and `other` is bound to that string
DeviceStatusFrom(t) ==
    LET l == to_lowercase(trim(t))
    IN  CASE l = <<"d", "e", "v", "i", "c", "e">> -> Status("Device", <<>>)
          [] l = <<"o", "f", "f", "l", "i", "n", "e">> -> Status("Offline", <<>>)
          [] l = <<"u", "n", "a", "u", "t", "h", "o", "r", "i", "z", "e", "d">> ->
                Status("Unauthorized", <<>>)
          [] OTHER -> Status("Unknown", l)

\* Option<String>
NoString == [some |-> FALSE, v |-> <<>>]
Some(v) == [some |-> TRUE, v |-> v]

\* str::strip_prefix
strip_prefix(t, prefix) ==
    IF IsPrefix(prefix, t) THEN Some(SubSeq(t, Len(prefix) + 1, Len(t))) ELSE NoString

ModelKey == <<"m", "o", "d", "e", "l", ":">>
ProductKey == <<"p", "r", "o", "d", "u", "c", "t", ":">>

\* for part in parts.iter().skip(2): a part with the prefix model: sets model,
\* any other part with the prefix product: sets product; the last one stays
last_value(parts, key, others) ==
    LET hits == { i \in 3..Len(parts) :
                    /\ strip_prefix(parts[i], key).some
                    /\ \A o \in others : ~strip_prefix(parts[i], o).some }
    IN  IF hits = {} THEN NoString
        ELSE strip_prefix(parts[CHOOSE i \in hits : \A j \in hits : j <= i], key)

\* the test that lets a line through to parts[0] and parts[1], without the
\* test on the number of parts
enough_parts_unchecked(parts) == TRUE

\* if parts.len() < 2 { continue; }
enough_parts(parts) == Len(parts) >= 2

\* the DeviceInfo pushed for a line
device_info(parts) ==
    [id |-> parts[1], status |-> DeviceStatusFrom(parts[2]),
     model |-> last_value(parts, ModelKey, {}),
     product |-> last_value(parts, ProductKey, {ModelKey})]

\* parse_devices_output(output): Ok(devices), or a panic where an index is
\* out of bounds
parse_devices_output(output) ==
    LET all   == lines(output)
        rest  == IF all = <<>> THEN <<>> ELSE Tail(all)
        parts == [i \in 1..Len(rest) |-> split_whitespace(trim(rest[i]))]
        kept  == SelectSeq(parts, LAMBDA ps : ps # <<>> /\ enough_parts(ps))
    IN  IF \E i \in 1..Len(kept) : Len(kept[i]) < 2
        THEN [outcome |-> "panic", devices |-> <<>>]
        ELSE [outcome |-> "Ok", devices |-> [i \in 1..Len(kept) |-> device_info(kept[i])]]

\* most lines of an output
MaxLines == 3

\* the lines the model builds outputs from
DeviceLines ==
    { <<"L", "i", "s", "t", " ", "o", "f", " ", "d", "e", "v", "i", "c", "e", "s",
        " ", "a", "t", "t", "a", "c", "h", "e", "d">>,
      <<>>,
      <<" ", " ">>,
      <<"e", "m", "1">>,
      <<"e", "m", "1", " ", "d", "e", "v", "i", "c", "e">>,
      <<"e", "m", "1", "\t", "D", "E", "V", "I", "C", "E", " ", "p", "r", "o",
        "d", "u", "c", "t", ":", "p", " ", "m", "o", "d", "e", "l", ":", "s", "d",
        "k">>,
      <<" ", " ", "e", "2", " ", " ", "O", "f", "f", "l", "i", "n", "e", " ">>,
      <<"e", "2", " ", "u", "n", "a", "u", "t", "h", "o", "r", "i", "z", "e", "d",
        " ", "m", "o", "d", "e", "l", ":">>,
      <<"e", "2", " ", "R", "e", "c", "o", "v", "e", "r", "y", " ", "u", "s", "b",
        ":", "1", " ", "m", "o", "d", "e", "l", ":", "a", " ", "m", "o", "d", "e",
        "l", ":", "b">>,
      <<"e", "2", " ", "o", "f", "f", "l", "i", "n", "e", "\r">> }

RECURSIVE join(_)
join(ls) == IF ls = <<>> THEN <<>> ELSE Head(ls) \o <<"\n">> \o join(Tail(ls))

\* the outputs of adb devices -l the model parses: up to MaxLines lines, with
\* or without the newline after the last one
Outputs ==
    { IF nl \/ ls = <<>> THEN join(ls) ELSE SubSeq(join(ls), 1, Len(join(ls)) - 1) :
        ls \in SeqsUpTo(DeviceLines, MaxLines), nl \in BOOLEAN }

\* list_devices hands the output of adb to parse_devices_output; the model
\* parses every output twice
parse_devices ==
    /\ Len(devices_results) < 2
    /\ devices_results' = Append(devices_results, parse_devices_output(devices_output))
    /\ UNCHANGED <<devices_output, nonParseVars>>

InitParse ==
    /\ devices_output \in Outputs
    /\ devices_results = <<>>
    /\ NonParseIdle

NextParse == parse_devices

SpecParse == InitParse /\ [][NextParse]_vars

\* the lines after the first one, split into tokens
RestTokens ==
    LET all == lines(devices_output)
    IN  [i \in 1..(Len(all) - 1) |-> split_whitespace(all[i + 1])]

\* the lines after the first one that have at least two tokens, in order
DeviceTokens == SelectSeq(RestTokens, LAMBDA ts : Len(ts) >= 2)

\* the status the claim gives a token: case-insensitive for the three known
\* ones, Unknown with the raw token for the others
StatedStatus(t) ==
    CASE to_lowercase(t) = <<"d", "e", "v", "i", "c", "e">> -> Status("Device", <<>>)
      [] to_lowercase(t) = <<"o", "f", "f", "l", "i", "n", "e">> -> Status("Offline", <<>>)
      [] to_lowercase(t) = <<"u", "n", "a", "u", "t", "h", "o", "r", "i", "z", "e", "d">> ->
            Status("Unauthorized", <<>>)
      [] OTHER -> Status("Unknown", t)

\* the values of the tokens after the second that start with key
KeyValues(ts, key) ==
    { SubSeq(ts[i], Len(key) + 1, Len(ts[i])) : i \in { j \in 3..Len(ts) : IsPrefix(key, ts[j]) } }

\* C18: parse_devices_output skips the first line and returns, in input order,
\* one device per remaining line with at least two tokens: the id is the first
\* token, the status is the second token mapped case-insensitively (Unknown
\* carries the raw token), model and product come from the model: and product:
\* tokens and are absent without one; parsing the same output again gives an
\* equal result.
C18_ParseDevices ==
    \A n \in 1..Len(devices_results) :
        LET ds == devices_results[n].devices
        IN  /\ devices_results[n].outcome = "Ok"
            /\ devices_results[n] = devices_results[1]
            /\ Len(ds) = Len(DeviceTokens)
            /\ \A i \in 1..Len(ds) :
                  LET ts == DeviceTokens[i]
                  IN  /\ ds[i].id = ts[1]
                      /\ ds[i].status = StatedStatus(ts[2])
                      /\ ds[i].model.some <=> KeyValues(ts, ModelKey) # {}
                      /\ ds[i].model.some => ds[i].model.v \in KeyValues(ts, ModelKey)
                      /\ ds[i].product.some <=> KeyValues(ts, ProductKey) # {}
                      /\ ds[i].product.some => ds[i].product.v \in KeyValues(ts, ProductKey)

\* C19: parse_devices_output never fails or crashes, whatever the text: it
\* returns a list, empty for an empty output, for the banner alone, for blank
\* lines and for lines of one token, and every entry has a non-empty id.
C19_ParseTotal ==
    \A n \in 1..Len(devices_results) :
        /\ devices_results[n].outcome = "Ok"
        /\ \A i \in 1..Len(devices_results[n].devices) :
              devices_results[n].devices[i].id # <<>>
        /\ (\A i \in 1..Len(RestTokens) : Len(RestTokens[i]) < 2) =>
              devices_results[n].devices = <<>>

\* a banner, a line of one token and a device line were parsed: one device
C19_Witness ==
    /\ Len(lines(devices_output)) = 3
    /\ Len(RestTokens[1]) = 1
    /\ Len(devices_results) = 1
    /\ Len(devices_results[1].devices) = 1
    /\ devices_results[1].devices[1].id = <<"e", "2">>

(***************************************************************************)
(* adb/command_builder.rs: AdbCommand::to_args, AdbCommandBuilder.         *)
(***************************************************************************)
ShellArgvs == {<<>>, <<"ls">>, <<"ls", "-l">>, <<"-s", "x">>}

\* the commands the model builds
AdbCommands ==
    {Cmd("Version", FALSE, "", "", <<>>), Cmd("StartServer", FALSE, "", "", <<>>),
     Cmd("KillServer", FALSE, "", "", <<>>), Cmd("GetProp", FALSE, "ro.product.model", "", <<>>),
     Cmd("Push", FALSE, "a.txt", "/sdcard/a.txt", <<>>),
     Cmd("Pull", FALSE, "/sdcard/a.txt", "a.txt", <<>>),
     Cmd("Reboot", FALSE, "", "", <<>>), Cmd("Reboot", TRUE, "recovery", "", <<>>)}
    \cup { Cmd("Devices", long, "", "", <<>>) : long \in BOOLEAN }
    \cup { Cmd("Shell", FALSE, "", "", argv) : argv \in ShellArgvs }
    \cup { Cmd("Install", reinstall, "app.apk", "", <<>>) : reinstall \in BOOLEAN }
    \cup { Cmd("Uninstall", keep_data, "com.app", "", <<>>) : keep_data \in BOOLEAN }

\* the device ids the model targets
TargetIds == Devices \cup {""}

\* AdbCommand::to_args
to_args(command) ==
    CASE command.kind = "Version"     -> <<"version">>
      [] command.kind = "Devices"     ->
            <<"devices">> \o (IF command.flag THEN <<"-l">> ELSE <<>>)
      [] command.kind = "Shell"       -> <<"shell">> \o command.argv
      [] command.kind = "Install"     ->
            <<"install">> \o (IF command.flag THEN <<"-r">> ELSE <<>>) \o <<command.a>>
      [] command.kind = "Uninstall"   ->
            <<"uninstall">> \o (IF command.flag THEN <<"-k">> ELSE <<>>) \o <<command.a>>
      [] command.kind = "Push"        -> <<"push", command.a, command.b>>
      [] command.kind = "Pull"        -> <<"pull", command.a, command.b>>
      [] command.kind = "Reboot"      ->
            <<"reboot">> \o (IF command.flag THEN <<command.a>> ELSE <<>>)
      [] command.kind = "StartServer" -> <<"start-server">>
      [] command.kind = "KillServer"  -> <<"kill-server">>
      [] command.kind = "GetProp"     -> <<"shell", "getprop", command.a>>

\* AdbCommandBuilder::new()
AdbCommandBuilder_new ==
    /\ builder' = [made |-> TRUE, device_id |-> NoDevice]
    /\ UNCHANGED <<built, nonBuilderVars>>

\* AdbCommandBuilder::target(device_id)
target(device_id) ==
    /\ builder.made
    /\ builder' = [builder EXCEPT !.device_id = SomeDevice(device_id)]
    /\ UNCHANGED <<built, nonBuilderVars>>

\* build with the device arguments put after the command's
build_device_last(command) ==
    /\ builder.made
    /\ built' = [command |-> command,
                 args |-> to_args(command) \o
                          (IF builder.device_id.some THEN <<"-s", builder.device_id.v>>
                           ELSE <<>>)]
    /\ UNCHANGED <<builder, nonBuilderVars>>

\* AdbCommandBuilder::build(&self, command)
build(command) ==
    /\ builder.made
    /\ built' = [command |-> command,
                 args |-> (IF builder.device_id.some THEN <<"-s", builder.device_id.v>>
                           ELSE <<>>) \o to_args(command)]
    /\ UNCHANGED <<builder, nonBuilderVars>>

InitBuilder == BuilderIdle /\ NonBuilderIdle

NextBuilder ==
    \/ AdbCommandBuilder_new
    \/ \E device_id \in TargetIds : target(device_id)
    \/ \E command \in AdbCommands : build(command)

SpecBuilder == InitBuilder /\ [][NextBuilder]_vars

\* C20: build returns the command's own arguments, in their order, after
\* exactly the two arguments -s and the device id when a target was set and
\* after nothing when none was set; Devices{long: true} gives devices -l and
\* Shell(argv) gives shell followed by argv.
C20_Build ==
    [][\A command \in AdbCommands :
         (builder.made /\ built' # built /\ built'.command = command) =>
            LET args == built'.args
                own  == to_args(command)
            IN  /\ builder.device_id.some =>
                      /\ Len(args) = Len(own) + 2
                      /\ args[1] = "-s" /\ args[2] = builder.device_id.v
                      /\ \A i \in 1..Len(own) : args[i + 2] = own[i]
                /\ ~builder.device_id.some => args = own
                /\ command = Cmd("Devices", TRUE, "", "", <<>>) => own = <<"devices", "-l">>
                /\ command.kind = "Shell" => own = <<"shell">> \o command.argv
                /\ builder' = builder]_vars

\* a shell command was built for a targeted device
C20_Witness ==
    /\ builder = [made |-> TRUE, device_id |-> SomeDevice("d1")]
    /\ built.command = Cmd("Shell", FALSE, "", "", <<"ls", "-l">>)
    /\ built.args = <<"-s", "d1", "shell", "ls", "-l">>

(***************************************************************************)
(* adb/client.rs (AdbClient::wait_for_process) and adb/executor.rs         *)
(* (AdbExecutor::run_with_timeout): one attempt together with the child    *)
(* and the two pipes the attempt gave it.  Both functions spawn with       *)
(* Stdio::piped() for stdout and stderr, call child.wait_timeout(timeout)  *)
(* and read the pipes only afterwards, in child.wait_with_output().        *)
(***************************************************************************)
\* bytes a pipe holds before a write to it blocks
PipeCapacity == 2
\* writes a child makes at most
MaxWrites == 3
\* the timeout argument, in ticks
TimeoutTicks == 2

PipeNames == {"stdout", "stderr"}

\* the programs a child may be: what it writes, in order
ChildScripts == SeqsUpTo(PipeNames, MaxWrites)

\* bytes script writes to pipe
Written_to(script, pipe) == Cardinality({i \in DOMAIN script : script[i] = pipe})

ProcErr(details) ==
    [ok |-> FALSE, status |-> 0, stdout |-> 0, stderr |-> 0, details |-> details]

\* the child's next write has room in its pipe
ChildCanWrite ==
    /\ proc_child.state = "running"
    /\ proc_child.pos < Len(proc_child.script)
    /\ proc_pipes[proc_child.script[proc_child.pos + 1]] < PipeCapacity

\* the child has written everything and computed long enough
ChildCanExit ==
    /\ proc_child.state = "running"
    /\ proc_child.pos = Len(proc_child.script)
    /\ proc_clock >= proc_child.work

\* let mut child = cmd.spawn().map_err(..)?
wait_for_process_spawn ==
    /\ proc_pc = "idle"
    /\ \/ \E script \in ChildScripts, work \in 0..(TimeoutTicks + 1), st \in ExitStatuses :
             /\ proc_child' = [state |-> "running", script |-> script, pos |-> 0,
                               work |-> work, status |-> st]
             /\ proc_pc' = "wait"
             /\ UNCHANGED proc_result
       \/ /\ proc_result' = ProcErr("Failed to spawn process")
          /\ proc_pc' = "done"
          /\ UNCHANGED proc_child
    /\ UNCHANGED <<proc_pipes, proc_clock, nonPipeVars>>

\* the child writes one byte to the pipe its program names next
ChildWrites ==
    /\ ChildCanWrite
    /\ LET pipe == proc_child.script[proc_child.pos + 1]
       IN  proc_pipes' = [proc_pipes EXCEPT ![pipe] = @ + 1]
    /\ proc_child' = [proc_child EXCEPT !.pos = @ + 1]
    /\ UNCHANGED <<proc_pc, proc_clock, proc_result, nonPipeVars>>

\* the child exits; what it wrote stays in the pipes
ChildExits ==
    /\ ChildCanExit
    /\ proc_child' = [proc_child EXCEPT !.state = "exited"]
    /\ UNCHANGED <<proc_pc, proc_pipes, proc_clock, proc_result, nonPipeVars>>

\* time passes while the child computes or waits for room in a pipe
Tick ==
    /\ proc_pc = "wait"
    /\ proc_child.state = "running"
    /\ ~ChildCanWrite /\ ~ChildCanExit
    /\ proc_clock < TimeoutTicks
    /\ proc_clock' = proc_clock + 1
    /\ UNCHANGED <<proc_pc, proc_child, proc_pipes, proc_result, nonPipeVars>>

\* match child.wait_timeout(timeout) { Ok(Some(_)) .. Ok(None) .. Err(e) .. }
wait_for_process_wait_timeout ==
    /\ proc_pc = "wait"
    /\ \/ /\ proc_child.state = "exited"
          /\ proc_pc' = "output"
          /\ UNCHANGED proc_result
       \/ /\ proc_child.state = "running"
          /\ proc_clock >= TimeoutTicks
          /\ proc_pc' = "kill"
          /\ UNCHANGED proc_result
       \/ /\ proc_result' = ProcErr("Wait error")
          /\ proc_pc' = "done"
    /\ UNCHANGED <<proc_child, proc_pipes, proc_clock, nonPipeVars>>

\* Ok(None) => { let _ = child.kill(); let _ = child.wait();
\*               Err(ExecutionFailed("Command timed out")) }
wait_for_process_kill ==
    /\ proc_pc = "kill"
    /\ proc_child' = [proc_child EXCEPT !.state = "killed"]
    /\ proc_result' = ProcErr("Command timed out")
    /\ proc_pc' = "done"
    /\ UNCHANGED <<proc_pipes, proc_clock, nonPipeVars>>

\* Ok(Some(_)) => child.wait_with_output(): both pipes are read to their end
wait_for_process_output ==
    /\ proc_pc = "output"
    /\ \/ /\ proc_result' = [ok |-> TRUE, status |-> proc_child.status,
                             stdout |-> proc_pipes.stdout, stderr |-> proc_pipes.stderr,
                             details |-> ""]
          /\ proc_pipes' = EmptyPipes
       \/ /\ proc_result' = ProcErr("Output error")
          /\ UNCHANGED proc_pipes
    /\ proc_pc' = "done"
    /\ UNCHANGED <<proc_child, proc_clock, nonPipeVars>>

InitPipes == PipeIdle /\ NonPipeIdle

NextPipes ==
    \/ wait_for_process_spawn
    \/ ChildWrites
    \/ ChildExits
    \/ Tick
    \/ wait_for_process_wait_timeout
    \/ wait_for_process_kill
    \/ wait_for_process_output

SpecPipes == InitPipes /\ [][NextPipes]_vars

\* the child exits before the timeout whenever its writes do not block
ExitsWhenConsumed == proc_child.state # "none" /\ proc_child.work < TimeoutTicks

\* C21: an attempt whose child would exit on its own within the timeout when
\* its output is consumed never ends with "Command timed out", and when it
\* returns Ok it carries the child's exit status and everything the child's
\* program writes to stdout and to stderr, whatever the amount.
C21_FullCapture ==
    (proc_pc = "done" /\ ExitsWhenConsumed) =>
        /\ proc_result.details # "Command timed out"
        /\ proc_result.ok =>
              /\ proc_result.status = proc_child.status
              /\ proc_result.stdout = Written_to(proc_child.script, "stdout")
              /\ proc_result.stderr = Written_to(proc_child.script, "stderr")

(***************************************************************************)
(* lib.rs (the RunEvent::Exit handler) with adb/executor.rs                *)
(* (AdbExecutor::kill_server): the handler's second block, attempt by      *)
(* attempt.  kill_server runs adb kill-server through run_with_retry with  *)
(* a timeout of 5 s and retries = 1.                                       *)
(***************************************************************************)
\* kill_server calling run_with_retry with no retry
kill_server_call_no_retry ==
    /\ app_phase = "drained"
    /\ run_pc = "idle"
    /\ run_impl' = "AdbExecutor"
    /\ retries' = 0
    /\ attempt' = 0
    /\ last_error' = AppErrorFrom("ExecutionFailed", "No attempts made")
    /\ run_pc' = "loop"
    /\ UNCHANGED <<children, attempt_result, attempt_log, run_result, nonRunnerVars>>

\* let executor = AdbExecutor::new(); executor.kill_server():
\* self.run_with_retry(|| adb kill-server, Duration::from_secs(5), 1)
kill_server_call ==
    /\ app_phase = "drained"
    /\ run_pc = "idle"
    /\ run_impl' = "AdbExecutor"
    /\ retries' = 1
    /\ attempt' = 0
    /\ last_error' = AppErrorFrom("ExecutionFailed", "No attempts made")
    /\ run_pc' = "loop"
    /\ UNCHANGED <<children, attempt_result, attempt_log, run_result, nonRunnerVars>>

\* let _ = executor.kill_server() returns and with it the handler; an adb
\* kill-server child that ran may have ended the adb server, and then the
\* adb client processes connected to it exit and the forwarded sockets close
kill_server_return ==
    /\ app_phase = "drained"
    /\ run_pc = "done"
    /\ \E ok \in BOOLEAN :
          /\ ok => children # <<>>
          /\ track_child' = IF ok /\ track_child = "alive" THEN "exited" ELSE track_child
          /\ server_process' = [s \in Sessions |->
                                  IF ok /\ server_process[s] = "alive"
                                  THEN "exited" ELSE server_process[s]]
          /\ peer' = [s \in Sessions |-> IF ok /\ peer[s] = "open" THEN "closed" ELSE peer[s]]
          /\ lchild' = [c \in LogcatChildren |->
                          IF ok /\ lchild[c].state = "alive"
                          THEN [lchild[c] EXCEPT !.state = "exited"] ELSE lchild[c]]
    /\ app_phase' = "returned"
    /\ UNCHANGED <<sessions, session_dev, streaming, cacheVars, rpc, socket, nal_buffer,
                   nal_data, frames, units, running, last_devices, world, world_changes,
                   wpc, listed, since_emit, device_events, streams, logcat_call, lpipe,
                   lwritten, lreader, lbatch, logcat_events, nonAppVars>>

NextKillServer ==
    \/ exit_handler_drain
    \/ kill_server_call
    \/ run_with_retry_loop
    \/ run_with_timeout_spawn
    \/ run_with_timeout_wait
    \/ run_with_timeout_kill
    \/ run_with_timeout_output
    \/ run_with_retry_match
    \/ kill_server_return
    \/ ProcessExit
    \/ \E c \in LogcatChildren : logcat_reader_line(c)
    \/ \E c \in LogcatChildren : logcat_reader_end(c)
    \/ \E s \in Sessions : decode_and_stream(s)

SpecKillServer == InitShutdown /\ [][NextKillServer]_vars

\* the logcat children the registry held when the Exit handler started
RegisteredAtExit == { c \in LogcatChildren : lchild[c].dev # "none" }

\* adb kill-server is attempted only after the drain killed the children
KillServerAfterDrain ==
    (run_pc # "idle" \/ attempt_log # <<>>) =>
        /\ app_phase # "running"
        /\ \A d \in Devices : streams[d] = 0
        /\ \A c \in RegisteredAtExit : lchild[c].state \in {"killed", "exited"}

\* C22 (as stated): during one shutdown adb kill-server is invoked exactly
\* once, whatever the outcome of the invocation (success, non-zero exit,
\* spawn failure or timeout), and only after every registered logcat child
\* has been killed.
C22_KillServerOnce ==
    /\ KillServerAfterDrain
    /\ ShutdownReturned => Len(attempt_log) = 1

\* C22 (amended): during one shutdown kill_server is called once, after
\* every registered logcat child has been killed; it invokes adb kill-server
\* once when that invocation runs to its exit (with status zero or not) and
\* a second and last time when the first invocation failed to spawn, timed
\* out or could not be waited for.
C22_KillServerRetriedOnce ==
    /\ KillServerAfterDrain
    /\ ShutdownReturned =>
          /\ attempt_log # <<>>
          /\ Len(attempt_log) = IF attempt_log[1].result.ok THEN 1 ELSE 2
          /\ attempt_log[1].result.ok => attempt_log[1].outcome = "completed"

\* the handler returned after a first invocation that timed out and a
\* second one that exited with a non-zero status
C22_Witness ==
    /\ app_phase = "returned"
    /\ Len(attempt_log) = 2
    /\ attempt_log[1].outcome = "timed_out"
    /\ attempt_log[2].outcome = "completed" /\ attempt_log[2].result.status = 1
    /\ lchild[1].state = "killed"

(***************************************************************************)
(* services/scrcpy.rs: decode_and_stream at the end of the video stream,   *)
(* with sync_session calls made meanwhile and afterwards.                  *)
(***************************************************************************)
\* 00 00 00 01 67 AA BB, 00 00 01 68 CC, 00 00 00 01 65 DD DD
EndOfStreamUnits ==
    << <<0, 0, 0, 1, 103, 170, 187>>, <<0, 0, 1, 104, 204>>, <<0, 0, 0, 1, 101, 221, 221>> >>

InitEndOfStream == InitReader({EndOfStreamUnits}) /\ NonScrcpyIdle

NextEndOfStream ==
    \/ \E s \in Sessions : decode_and_stream(s)
    \/ \E s \in Sessions : ServerExit(s)
    \/ \E c \in SyncCalls, d \in Devices, l \in Labels : sync_session_lock(c, d, l)
    \/ \E c \in SyncCalls : sync_session_clone(c)
    \/ \E c \in SyncCalls : sync_session_emit(c)

SpecEndOfStream == InitEndOfStream /\ [][NextEndOfStream]_vars

\* the reader of session s has left its loop on Ok(0): the peer closed the
\* socket and every byte it had sent was read before
EndOfStreamRead(s) == rpc[s] = "exit" /\ peer[s] = "closed" /\ socket[s] = <<>>

\* C23: once the reader has seen the end of the stream 00 00 00 01 67 AA BB
\* 00 00 01 68 CC 00 00 00 01 65 DD DD, three NAL units have been emitted (the
\* last one, which no start code follows, included) and classified, and a
\* sync made from then on gets the cached SPS, PPS and IDR.
C23_LastUnitFlushed ==
    /\ [](EndOfStreamRead(1) =>
            /\ NalsOf(1) = EndOfStreamUnits
            /\ last_sps[1] = EndOfStreamUnits[1]
            /\ last_pps[1] = EndOfStreamUnits[2]
            /\ last_idr[1] = EndOfStreamUnits[3])
    /\ [][\A c \in SyncCalls :
            (EndOfStreamRead(1) /\ sync_call[c].pc = "idr" /\ sync_call'[c].pc = "emit_sps") =>
               /\ sync_call'[c].sps = EndOfStreamUnits[1]
               /\ sync_call'[c].pps = EndOfStreamUnits[2]
               /\ sync_call'[c].idr = EndOfStreamUnits[3]]_vars

(***************************************************************************)
(* services/scrcpy.rs: what get_status reports against the state of the    *)
(* session's server child and of its decode_and_stream thread.             *)
(***************************************************************************)
\* the decode_and_stream thread of session s has returned
ReaderStopped(s) == rpc[s] = "exit"

\* C24: a session that get_status reports as running has a server child that
\* is alive or has exited and waits to be reaped, its streaming flag is true exactly when its video reader thread
\* has not stopped, and once the reader has stopped (end of stream, failed
\* handshake read, read error) the session is no longer reported as running.
C24_RunningMeansStreaming ==
    \A d \in Devices :
        get_status(d).running =>
            LET s == sessions[d]
            IN  /\ server_process[s] \in {"alive", "exited"}
                /\ streaming[s] <=> ~ReaderStopped(s)
                /\ ~ReaderStopped(s)

(***************************************************************************)
(* services/scrcpy.rs: sync_session cloning the three cache slots, each    *)
(* under its own mutex, while decode_and_stream replaces them.             *)
(***************************************************************************)
\* the last unit of type ty among the first k units of us (<<>>: none)
LastOfType(us, k, ty) ==
    LET I == { i \in 1..k : nal_type(us[i]) = ty }
    IN  IF I = {} THEN <<>> ELSE us[CHOOSE i \in I : \A j \in I : j <= i]

\* every value the three slots can hold together while the units of us are
\* classified one after the other
CacheHistory(us) ==
    { <<LastOfType(us, k, 7), LastOfType(us, k, 8), LastOfType(us, k, 5)>> : k \in 0..Len(us) }

\* C25: the SPS, PPS and IDR one sync_session call cloned are values the
\* three cache slots held together at one instant, also when the reader
\* replaces slots while the call runs.
C25_ConsistentSnapshot ==
    \A c \in SyncCalls :
        LET f == sync_call[c]
        IN  (f.pc \in {"emit_sps", "emit_pps", "emit_idr", "done"} /\ f.session # NoSession) =>
               <<f.sps, f.pps, f.idr>> \in CacheHistory(units[f.session])

(***************************************************************************)
(* services/scrcpy.rs: send_control_event step by step, next to            *)
(* stop_server.  The function takes the registry mutex, then the socket    *)
(* mutex, and writes; both guards live until it returns.  The control      *)
(* socket has no write timeout: write_all waits until the socket has room. *)
(***************************************************************************)
ControlHolder == [kind |-> "control", id |-> 0]

\* let sessions = SCRCPY_SESSIONS.lock().unwrap(); the message is built
send_control_event_lock(device_id, action) ==
    /\ touch_call.result # "writing"
    /\ sessions_lock = Free
    /\ sessions_lock' = ControlHolder
    /\ touch_call' = [dev |-> device_id, action |-> action, x |-> 100, y |-> 200,
                      width |-> 720, height |-> 1280, result |-> "writing"]
    /\ UNCHANGED <<control, sync_call, sync_events, callVars, scrcpyVars, appVars, runnerVars,
                   trackerVars, logcatVars, agentVars, parseVars, builderVars, moreVars>>

\* the message of the call in progress
PendingMessage ==
    control_message(2, touch_data(touch_call.action, touch_call.x, touch_call.y,
                                  touch_call.width, touch_call.height))

\* write_all of the call in progress waits for room in the control socket
ControlWriteBlocked ==
    /\ touch_call.result = "writing"
    /\ sessions[touch_call.dev] # NoSession
    /\ Len(control[sessions[touch_call.dev]]) + Len(PendingMessage) > SocketCapacity

\* socket.write_all(&message) once the socket has room, socket.flush(), and
\* the return, which drops both guards; a failing write_all has written no
\* byte or a part of the message (here: all but its last byte)
send_control_event_write ==
    /\ touch_call.result = "writing"
    /\ sessions_lock = ControlHolder
    /\ ~ControlWriteBlocked
    /\ LET s == sessions[touch_call.dev]
       IN  \/ /\ s = NoSession
              /\ touch_call' = [touch_call EXCEPT !.result = "Ok"]
              /\ UNCHANGED control
           \/ /\ s # NoSession
              /\ control' = [control EXCEPT ![s] = @ \o PendingMessage]
              /\ touch_call' = [touch_call EXCEPT !.result = "Ok"]
           \/ /\ s # NoSession
              /\ \E k \in {0, Len(PendingMessage) - 1} :
                    control' = [control EXCEPT ![s] = @ \o SubSeq(PendingMessage, 1, k)]
              /\ touch_call' = [touch_call EXCEPT !.result = "CONTROL_WRITE_FAILED"]
    /\ sessions_lock' = Free
    /\ UNCHANGED <<sync_call, sync_events, callVars, scrcpyVars, appVars, runnerVars,
                   trackerVars, logcatVars, agentVars, parseVars, builderVars, moreVars>>

NextRegistryLock ==
    \/ \E d \in Devices, a \in TouchActions : send_control_event_lock(d, a)
    \/ send_control_event_write
    \/ \E s \in Sessions : ControlServerReads(s)
    \/ \E d \in Devices : stop_server_remove(d)
    \/ stop_server_cleanup
    \/ \E s \in Sessions : ServerExit(s)

SpecRegistryLock == InitStop /\ [][NextRegistryLock]_vars

\* C26: the registry mutex is not held while its holder waits in a blocking
\* operation: when a control-socket write waits for room the mutex is free,
\* so that stop_server's removal can run for every device.
C26_LockNotHeldWhileBlocked ==
    ControlWriteBlocked =>
        /\ sessions_lock = Free
        /\ \A d \in Devices : ENABLED stop_server_remove(d)

(***************************************************************************)
(* adb/tracker.rs with lib.rs: the device tracker during the Exit handler. *)
(***************************************************************************)
\* the reader spawns an adb track-devices child
TrackerSpawns == track_child' = "alive" /\ wpc["reader"] = "loop" /\ wpc'["reader"] = "lines"

\* C27: when the Exit handler has run, the tracker's running flag is false
\* and no adb track-devices child is alive, and from then on the reader
\* spawns no new track-devices child.
C27_TrackerStopsOnShutdown ==
    /\ [](ShutdownReturned => (~running /\ track_child # "alive"))
    /\ [][ShutdownReturned => ~TrackerSpawns]_vars

(***************************************************************************)
(* adb/tracker.rs: run_tracker and its heartbeat with their clocks.  Time  *)
(* is counted in ticks of TickMs from the start of the tracker.            *)
(***************************************************************************)
\* const DEBOUNCE_MS: u64 = 500
DEBOUNCE_MS == 500
DebounceTicks == DEBOUNCE_MS \div TickMs
TicksPerSecond == 1000 \div TickMs

\* how long the model follows the reader's clock, in ticks
MaxLineTicks == 5

\* lines adb track-devices writes: empty, blank, a device entry
LineTexts == {<<>>, <<" ">>, <<"d", "1", "\t", "d", "e", "v", "i", "c", "e">>}

\* time passes
TimePasses(dt, horizon) ==
    /\ now + dt <= horizon
    /\ now' = now + dt
    /\ UNCHANGED <<last_emit_time, last_event_time, line_seen, hb_wait, pipeVars, mainVars,
                   controlVars, agentVars, parseVars, builderVars, lateVars>>

\* the body of for line in reader.lines() listing on every non-empty line
run_tracker_line_timed_always(text) ==
    /\ wpc["reader"] = "lines"
    /\ running
    /\ IF trim(text) # <<>>
       THEN /\ wpc' = [wpc EXCEPT !["reader"] = "list"]
            /\ last_emit_time' = now
            /\ line_seen' = [text |-> text, listed |-> TRUE, at |-> now]
       ELSE /\ line_seen' = [text |-> text, listed |-> FALSE, at |-> now]
            /\ UNCHANGED <<wpc, last_emit_time>>
    /\ UNCHANGED <<running, last_devices, world, world_changes, listed, since_emit,
                   track_child, device_events, now, last_event_time, hb_wait, nonTimedTrackerVars>>

\* run_tracker, the body of for line in reader.lines() for Ok(text):
\*   if !text.trim().is_empty() {
\*       let now = Instant::now();
\*       if now.duration_since(last_emit_time) >= DEBOUNCE_MS {
\*           emit_if_changed(..); last_emit_time = now; } }
run_tracker_line_timed(text) ==
    /\ wpc["reader"] = "lines"
    /\ running
    /\ IF trim(text) # <<>> /\ now - last_emit_time >= DebounceTicks
       THEN /\ wpc' = [wpc EXCEPT !["reader"] = "list"]
            /\ last_emit_time' = now
            /\ line_seen' = [text |-> text, listed |-> TRUE, at |-> now]
       ELSE /\ line_seen' = [text |-> text, listed |-> FALSE, at |-> now]
            /\ UNCHANGED <<wpc, last_emit_time>>
    /\ UNCHANGED <<running, last_devices, world, world_changes, listed, since_emit,
                   track_child, device_events, now, last_event_time, hb_wait, nonTimedTrackerVars>>

\* run_tracker, the other ends of the lines loop: a line with running false
\* (the child is killed), the end of the child's output, a read error
run_tracker_line_end ==
    /\ wpc["reader"] = "lines"
    /\ \/ ~running /\ track_child' = "killed"
       \/ track_child' = "exited"
       \/ running /\ track_child' = "leaked"
    /\ wpc' = [wpc EXCEPT !["reader"] = "after"]
    /\ UNCHANGED <<running, last_devices, world, world_changes, listed, since_emit,
                   device_events, nonTrackerVars>>

\* emit_if_changed, under the last_devices mutex, with the time of the event
emit_if_changed_compare_timed(w) ==
    /\ wpc[w] = "compare"
    /\ IF ~VecEq(last_devices, listed[w])
       THEN /\ last_devices' = listed[w]
            /\ device_events' = Append(device_events, [by |-> w, devices |-> listed[w]])
            /\ last_event_time' = now
       ELSE UNCHANGED <<last_devices, device_events, last_event_time>>
    /\ wpc' = [wpc EXCEPT ![w] = AfterEmitIfChanged(w)]
    /\ UNCHANGED <<running, world, world_changes, listed, since_emit, track_child,
                   now, last_emit_time, line_seen, hb_wait, nonTimedTrackerVars>>

\* heartbeat, loop head: break unless running; has_transitional is taken from
\* the snapshot, then thread::sleep(Duration::from_secs(sleep_secs)) starts
heartbeat_sleep_timed ==
    /\ wpc["heartbeat"] = "loop"
    /\ IF running
       THEN /\ hb_wait' = [snapshot |-> last_devices, secs |-> sleep_secs, start |-> now]
            /\ wpc' = [wpc EXCEPT !["heartbeat"] = "sleep"]
       ELSE /\ wpc' = [wpc EXCEPT !["heartbeat"] = "exit"]
            /\ UNCHANGED hb_wait
    /\ UNCHANGED <<running, last_devices, world, world_changes, listed, since_emit,
                   track_child, device_events, now, last_emit_time, last_event_time,
                   line_seen, nonTimedTrackerVars>>

\* heartbeat, when the sleep is over: break unless running, else emit_if_changed
heartbeat_wake_timed ==
    /\ wpc["heartbeat"] = "sleep"
    /\ now >= hb_wait.start + hb_wait.secs * TicksPerSecond
    /\ wpc' = [wpc EXCEPT !["heartbeat"] = IF running THEN "list" ELSE "exit"]
    /\ UNCHANGED <<running, last_devices, world, world_changes, listed, since_emit,
                   track_child, device_events, nonTrackerVars>>

\* the tracker has just started with one of the device sets connected
InitTimed(worlds) ==
    /\ running = TRUE
    /\ last_devices = <<>>
    /\ world \in worlds
    /\ world_changes = 0
    /\ wpc = [w \in Workers |-> "loop"]
    /\ listed = [w \in Workers |-> <<>>]
    /\ since_emit = "ge"
    /\ track_child = "none"
    /\ device_events = <<>>
    /\ NonTrackerIdle

InitDebounce == InitTimed({<<PixelUnauthorized>>})

NextDebounce ==
    \/ TimePasses(1, MaxLineTicks)
    \/ run_tracker_spawn
    \/ \E text \in LineTexts : run_tracker_line_timed(text)
    \/ run_tracker_line_end
    \/ run_tracker_after
    \/ \E w \in Workers : emit_if_changed_list(w)
    \/ \E w \in Workers : emit_if_changed_compare_timed(w)
    \/ heartbeat_sleep_timed
    \/ heartbeat_wake_timed

SpecDebounce == InitDebounce /\ [][NextDebounce]_vars

\* the reader handles a line in this step
LineHandled == line_seen' # line_seen

\* what handling a line does when it lists and when it drops the line
LineEffect ==
    IF line_seen'.listed
    THEN wpc'["reader"] = "list" /\ last_emit_time' = now
    ELSE wpc' = wpc /\ last_emit_time' = last_emit_time

\* the reader starts a listing only while handling a line
NotDeferred ==
    (wpc["reader"] # "list" /\ wpc'["reader"] = "list") => (LineHandled /\ line_seen'.listed)

\* C28 (as stated): a line triggers a device listing if and only if it is
\* non-empty and at least 500 ms have passed since the last device-changed
\* event was emitted; a line arriving earlier is dropped, not deferred, and
\* empty lines never trigger a listing.
C28_DebounceSinceLastEvent ==
    [][/\ LineHandled =>
            /\ line_seen'.listed <=>
                  (trim(line_seen'.text) # <<>> /\ now - last_event_time >= DebounceTicks)
            /\ LineEffect
       /\ NotDeferred]_vars

\* C28 (amended): a line triggers a device listing if and only if it is
\* non-empty after trimming and at least 500 ms have passed since
\* last_emit_time, the time of the last line that triggered a listing
\* (whether or not that listing emitted an event; 10 s before the start when
\* there was none; the heartbeat's events do not count).  A line arriving
\* earlier is dropped without listing, it is not deferred, and empty lines
\* never trigger a listing.
C28_DebounceSinceLastListing ==
    [][/\ LineHandled =>
            /\ line_seen'.listed <=>
                  (trim(line_seen'.text) # <<>> /\ now - last_emit_time >= DebounceTicks)
            /\ LineEffect
       /\ NotDeferred]_vars

\* a device line was dropped less than 500 ms after a line that triggered a
\* listing
C28_Witness ==
    /\ trim(line_seen.text) # <<>> /\ ~line_seen.listed
    /\ last_emit_time >= 0 /\ line_seen.at - last_emit_time < DebounceTicks
    /\ wpc["reader"] = "lines"

(***************************************************************************)
(* adb/tracker.rs: the heartbeat's waits.                                  *)
(***************************************************************************)
\* how long the model follows the heartbeat's clock, in seconds
MaxHeartbeatSeconds == 12

PixelOffline == DeviceInfo("d1", "Offline", "", "")
PixelUnknown == DeviceInfo("d1", "Unknown", "", "")
EmulatorOffline == DeviceInfo("d2", "Offline", "", "")
EmulatorUnknown == DeviceInfo("d2", "Unknown", "", "")

\* device sets with every status, alone and next to an authorized device
HeartbeatWorlds ==
    {<<>>, <<PixelAuthorized>>, <<PixelUnauthorized>>, <<PixelOffline>>, <<PixelUnknown>>,
     <<PixelAuthorized, EmulatorOffline>>, <<PixelAuthorized, EmulatorUnknown>>}

InitHeartbeat == InitTimed(HeartbeatWorlds)

NextHeartbeat ==
    \/ TimePasses(2 * TicksPerSecond, MaxHeartbeatSeconds * TicksPerSecond)
    \/ run_tracker_spawn
    \/ run_tracker_line
    \/ run_tracker_after
    \/ DebounceElapses
    \/ \E w \in Workers : emit_if_changed_list(w)
    \/ \E w \in Workers : emit_if_changed_compare(w)
    \/ heartbeat_sleep_timed
    \/ heartbeat_wake_timed

SpecHeartbeat == InitHeartbeat /\ [][NextHeartbeat]_vars

\* the snapshot has a device whose status is Unauthorized or Unknown
HasTransitional(snapshot) ==
    \E i \in 1..Len(snapshot) : snapshot[i].status \in {"Unauthorized", "Unknown"}

\* C30: the heartbeat starts a wait only with the running flag true, the wait
\* is 2 s when the snapshot read at its start has a device whose status is
\* Unauthorized or Unknown and 10 s otherwise (only Authorized and Offline
\* devices, or none), and the heartbeat lists only after that wait and with
\* the running flag true.
C30_HeartbeatWait ==
    [][/\ (wpc["heartbeat"] # "sleep" /\ wpc'["heartbeat"] = "sleep") =>
            /\ running
            /\ hb_wait'.snapshot = last_devices
            /\ hb_wait'.start = now
            /\ hb_wait'.secs = IF HasTransitional(last_devices) THEN 2 ELSE 10
       /\ (wpc["heartbeat"] # "list" /\ wpc'["heartbeat"] = "list") =>
            /\ running
            /\ wpc["heartbeat"] = "sleep"
            /\ hb_wait' = hb_wait
            /\ now - hb_wait.start >= hb_wait.secs * TicksPerSecond]_vars

\* the heartbeat lists after a 2 s wait on a snapshot with an Unknown device
\* next to an authorized one
C30_Witness ==
    /\ wpc["heartbeat"] = "list"
    /\ hb_wait.snapshot = <<PixelAuthorized, EmulatorUnknown>>
    /\ hb_wait.secs = 2
    /\ now - hb_wait.start = 2 * TicksPerSecond

(***************************************************************************)
(* adb/tracker.rs: what the heartbeat guarantees.  The heartbeat thread    *)
(* keeps running (each of its steps is taken once it can be) and          *)
(* executor.list_devices() succeeds again and again; nothing is assumed    *)
(* about the track-devices child, its lines or the reader.                 *)
(***************************************************************************)
\* the heartbeat's list_devices call returns Ok
HeartbeatListsOk ==
    /\ emit_if_changed_list("heartbeat")
    /\ wpc'["heartbeat"] = "compare"

\* the device set the tracker starts with
PollWorlds == {<<PixelUnauthorized>>}

NextPoll ==
    \/ \E w \in Workers : emit_if_changed_list(w)
    \/ \E w \in Workers : emit_if_changed_compare(w)
    \/ run_tracker_spawn
    \/ run_tracker_line
    \/ run_tracker_after
    \/ heartbeat_sleep
    \/ heartbeat_wake
    \/ WorldChange

SpecPoll == InitTimed(PollWorlds) /\ [][NextPoll]_vars

SpecTrackerLive ==
    /\ SpecPoll
    /\ WF_vars(heartbeat_sleep)
    /\ WF_vars(heartbeat_wake)
    /\ SF_vars(HeartbeatListsOk)
    /\ WF_vars(emit_if_changed_compare("heartbeat"))

\* the device sets one change leads to: unplugged, authorized, a second
\* device plugged
ChangedWorlds == {<<>>, <<PixelAuthorized>>, <<PixelAuthorized, Emulator>>}

\* a device-changed event carrying list w was emitted
Emitted(w) == \E i \in DOMAIN device_events : device_events[i].devices = w

\* C29 (as stated): while the tracker runs and listing succeeds, every change
\* of the connected-device set that then stays stable is eventually followed
\* by a device-changed event carrying the new list.
C29_ChangeEmitted ==
    \A w \in ChangedWorlds :
        (running /\ world_changes > 0 /\ world = w) ~> (world # w \/ Emitted(w))

\* C29 (amended): while the tracker runs and listing succeeds, after every
\* change of the connected-device set that then stays stable the list last
\* emitted (the empty initial snapshot when nothing was emitted) eventually
\* is the new list: a device-changed event carrying it follows unless the
\* snapshot already equals it, also when the track-devices line was dropped
\* or never produced.
C29_SnapshotConverges ==
    \A w \in ChangedWorlds :
        (running /\ world_changes > 0 /\ world = w) ~> (world # w \/ LastEmitted = w)

\* after a change that the reader did not handle, the heartbeat has emitted
\* the new list
C29_Witness ==
    /\ world_changes > 0
    /\ device_events # <<>>
    /\ device_events[Len(device_events)] = [by |-> "heartbeat", devices |-> world]
    /\ \A i \in DOMAIN device_events : device_events[i].by = "reader" =>
          device_events[i].devices # world

(***************************************************************************)
(* adb/tracker.rs: the adb track-devices children of the reader loop.      *)
(* track_child is the state of the child spawned last: "exited" once its   *)
(* output has ended, "killed" after child.kill(), "leaked" when the loop   *)
(* left the lines for a read error and dropped the handle of the running   *)
(* child (dropping a std::process::Child neither kills nor waits).         *)
(***************************************************************************)
\* the child spawned last still runs, whether or not the loop holds its handle
TrackChildRuns == track_child \in {"alive", "leaked"}

\* the reader loop spawns a child
TrackChildSpawned == wpc["reader"] = "loop" /\ wpc'["reader"] = "lines"

\* C31: at most one adb track-devices child of the tracker is alive: the
\* reader loop spawns a new child only after the previous child's output has
\* ended and that child has exited or been killed, also when reading a line
\* failed with an I/O or encoding error.
C31_OneTrackChild == [][TrackChildSpawned => ~TrackChildRuns]_vars

(***************************************************************************)
(* services/scrcpy.rs: start_server returning Err after the server child   *)
(* was spawned.  The `?` on the missing video or control socket returns    *)
(* from the function; the local server_process goes out of scope.          *)
(***************************************************************************)
\* the last start_server call returned Err for a socket it could not open
StartFailedOnSocket ==
    /\ start_call.pc = "idle"
    /\ start_call.result = "Err"
    /\ start_call.code \in {"SOCKET_ERROR", "CONTROL_SOCKET_ERROR"}

\* C32: when start_server fails after the scrcpy server child has been
\* spawned (video socket or control socket not established), the attempt is
\* torn down before the error is returned: the spawned server child is not
\* left running.
C32_FailedStartTornDown ==
    StartFailedOnSocket => server_process[start_call.session] # "alive"

(***************************************************************************)
(* services/scrcpy.rs: the connect phase of start_server, attempt by       *)
(* attempt.  The scrcpy server child has been spawned; the far end of      *)
(* 127.0.0.1:27183 is the adb server, which accepts the connection and     *)
(* then relays the device's dummy byte, or closes, or does neither.        *)
(***************************************************************************)
VideoConnectAttempts == 10
ControlConnectAttempts == 5

\* thread::sleep(1000 ms) after the spawn, then the first iteration of
\* for _attempt in 1..=10
start_server_wait ==
    /\ conn_pc = "spawned"
    /\ conn_pc' = "video"
    /\ conn_attempt' = 1
    /\ UNCHANGED <<video_connects, video_peer, video_socket, control_tries, control_socket,
                   conn_result, nonConnectVars>>

\* where the video loop continues after a failed attempt
NextVideoAttempt ==
    /\ conn_attempt' = IF conn_attempt < VideoConnectAttempts THEN conn_attempt + 1
                       ELSE conn_attempt
    /\ conn_pc' = IF conn_attempt < VideoConnectAttempts THEN "video" ELSE "video_done"

\* one iteration of the video loop: sleep(500 ms), TcpStream::connect; Err
\* ends the iteration, Ok goes on to read the dummy byte
start_server_video_connect ==
    /\ conn_pc = "video"
    /\ \/ /\ NextVideoAttempt
          /\ UNCHANGED <<video_connects, video_peer>>
       \/ /\ conn_pc' = "read_dummy"
          /\ video_connects' = video_connects + 1
          /\ video_peer' = "silent"
          /\ UNCHANGED conn_attempt
    /\ UNCHANGED <<video_socket, control_tries, control_socket, conn_result, nonConnectVars>>

\* the far end sends the dummy byte
PeerSendsDummy ==
    /\ video_peer = "silent"
    /\ video_peer' = "sent"
    /\ UNCHANGED <<conn_pc, conn_attempt, video_connects, video_socket, control_tries,
                   control_socket, conn_result, nonConnectVars>>

\* the far end closes the connection without sending anything
PeerCloses ==
    /\ video_peer = "silent"
    /\ video_peer' = "closed"
    /\ UNCHANGED <<conn_pc, conn_attempt, video_connects, video_socket, control_tries,
                   control_socket, conn_result, nonConnectVars>>

\* socket.read_exact(&mut dummy) on a socket without a read timeout: it
\* returns when the byte is there (Ok: video_socket = Some(socket); break) or
\* when the far end has closed (Err: the socket is dropped, next iteration),
\* and does not return before
start_server_read_dummy ==
    /\ conn_pc = "read_dummy"
    /\ \/ /\ video_peer = "sent"
          /\ video_peer' = "read"
          /\ video_socket' = "some"
          /\ conn_pc' = "video_done"
          /\ UNCHANGED conn_attempt
       \/ /\ video_peer = "closed"
          /\ video_peer' = "none"
          /\ NextVideoAttempt
          /\ UNCHANGED video_socket
    /\ UNCHANGED <<video_connects, control_tries, control_socket, conn_result, nonConnectVars>>

\* video_socket.ok_or_else(|| SOCKET_ERROR)?; set_read_timeout(5000 ms)
start_server_video_check ==
    /\ conn_pc = "video_done"
    /\ IF video_socket = "none"
       THEN conn_pc' = "done" /\ conn_result' = "SOCKET_ERROR"
       ELSE conn_pc' = "control" /\ UNCHANGED conn_result
    /\ UNCHANGED <<conn_attempt, video_connects, video_peer, video_socket, control_tries,
                   control_socket, nonConnectVars>>

\* one iteration of for _ in 0..5: TcpStream::connect; Ok breaks, Err sleeps
\* 200 ms; after the loop control_socket.ok_or_else(|| CONTROL_SOCKET_ERROR)?
start_server_control_connect ==
    /\ conn_pc = "control"
    /\ control_tries < ControlConnectAttempts
    /\ control_tries' = control_tries + 1
    /\ \/ /\ control_socket' = "some"
          /\ conn_pc' = "done"
          /\ conn_result' = "Ok"
       \/ /\ UNCHANGED control_socket
          /\ IF control_tries + 1 = ControlConnectAttempts
             THEN conn_pc' = "done" /\ conn_result' = "CONTROL_SOCKET_ERROR"
             ELSE UNCHANGED <<conn_pc, conn_result>>
    /\ UNCHANGED <<conn_attempt, video_connects, video_peer, video_socket, nonConnectVars>>

InitConnect ==
    /\ conn_pc = "spawned"
    /\ conn_attempt = 0
    /\ video_connects = 0
    /\ video_peer = "none"
    /\ video_socket = "none"
    /\ control_tries = 0
    /\ control_socket = "none"
    /\ conn_result = "none"
    /\ NonConnectIdle

NextConnect ==
    \/ start_server_wait
    \/ start_server_video_connect
    \/ PeerSendsDummy
    \/ PeerCloses
    \/ start_server_read_dummy
    \/ start_server_video_check
    \/ start_server_control_connect

SpecConnect == InitConnect /\ [][NextConnect]_vars

\* the thread that runs start_server takes each of its steps once it can;
\* nothing is assumed about the far end
SpecConnectLive ==
    /\ SpecConnect
    /\ WF_vars(start_server_wait)
    /\ WF_vars(start_server_video_connect)
    /\ WF_vars(start_server_read_dummy)
    /\ WF_vars(start_server_video_check)
    /\ WF_vars(start_server_control_connect)

VideoPhaseOver == conn_pc \in {"control", "done"}

\* C33, the part that holds at every moment: at most 10 connect attempts, an
\* attempt succeeds only once the connection is made and exactly one dummy
\* byte has been read, start_server fails with SOCKET_ERROR when no attempt
\* succeeded, and the control socket is opened only after the video socket
\* has been established.
C33_VideoConnectBounded ==
    /\ conn_attempt <= VideoConnectAttempts
    /\ video_connects <= conn_attempt
    /\ video_socket = "some" => video_peer = "read"
    /\ conn_result = "SOCKET_ERROR" <=> (conn_pc = "done" /\ video_socket = "none")
    /\ (conn_pc = "done" /\ video_socket = "none") => conn_attempt = VideoConnectAttempts
    /\ (control_tries > 0 \/ control_socket = "some") => video_socket = "some"

\* C33: the video-connect phase of start_server always terminates, also when
\* the far end accepts the connection and never sends the dummy byte, within
\* the bounds of C33_VideoConnectBounded.
C33_VideoConnectTerminates == []C33_VideoConnectBounded /\ <>VideoPhaseOver

(***************************************************************************)
(* services/scrcpy.rs: how the video reader thread ends.  The video socket *)
(* carries the 5 s receive timeout from before the thread is started, so   *)
(* every read of the thread returns; the thread takes each step once it    *)
(* can.  Nothing is assumed about the server or about stop_server calls.   *)
(***************************************************************************)
\* one session on d1, its reader thread just started
InitReaderEnd == InitReader(ServiceStreams) /\ NonScrcpyIdle

SpecReaderEnd == InitReaderEnd /\ [][NextStop]_vars

SpecReaderEndLive == SpecReaderEnd /\ \A s \in Sessions : WF_vars(decode_and_stream(s))

\* the reader thread of session s ends in this step
ReaderEnds(s) == rpc[s] \notin {"idle", "exit"} /\ rpc'[s] = "exit"

\* the flag is false, or the far end has closed and everything it sent was
\* read, or the connection was reset
EndOfLoopCause(s) ==
    \/ ~streaming[s]
    \/ peer[s] = "closed" /\ socket[s] = <<>>
    \/ peer[s] = "reset"

\* a stopped session's reader eventually exits
StoppedReaderExits ==
    \A s \in Sessions : (~streaming[s] /\ rpc[s] # "idle") ~> (rpc[s] = "exit")

\* C34 (as stated): after stop_server sets a session's streaming flag to
\* false, the session's video reader thread eventually exits; a receive
\* timeout on the video socket never ends the reader by itself, and the reader
\* ends only when the flag is false, the peer closes the socket, or a
\* non-timeout read error occurs.
C34_ReaderEndsOnlyOnCause ==
    /\ StoppedReaderExits
    /\ [][\A s \in Sessions : ReaderEnds(s) => EndOfLoopCause(s)]_vars

\* C34 (amended): after stop_server sets a session's streaming flag to false,
\* the session's video reader thread eventually exits; once the reader has
\* read the device name and the video header, a receive timeout never ends it
\* by itself (the loop continues and re-checks the flag) and it ends only when
\* the flag is false, the peer closes the socket, or a non-timeout read error
\* occurs; while it reads the name and the header, any failed read ends it,
\* a receive timeout included.
C34_ReaderEndsInLoopOnlyOnCause ==
    /\ StoppedReaderExits
    /\ [][\A s \in Sessions :
            ReaderEnds(s) => (rpc[s] \in {"name", "header"} \/ EndOfLoopCause(s))]_vars
    /\ [][\A s \in Sessions :
            (rpc[s] = "read" /\ streaming[s] /\ peer[s] = "open" /\ socket[s] = <<>>)
               => rpc'[s] \in {"read", "check"}]_vars

\* stop_server cleared the flag of a session whose reader had emitted units
\* and whose socket was still open, and the reader has ended
C34_Witness ==
    /\ stop_call.session # NoSession
    /\ ~streaming[stop_call.session]
    /\ rpc[stop_call.session] = "exit"
    /\ peer[stop_call.session] = "open"
    /\ frames[stop_call.dev] # <<>>

(***************************************************************************)
(* commands/logcat.rs: the reader thread of one logcat stream, with the    *)
(* text of every line, the batch and the clock.  A line is a sequence of   *)
(* characters; the child delivers lines until its output ends.             *)
(***************************************************************************)
\* milliseconds in a tick of the reader's clock
BatchTickMs == 100
\* last_emit.elapsed().as_millis() >= 100
FlushTicks == 100 \div BatchTickMs
\* how long the model follows a short stream, in ticks
MaxBatchTicks == 3
\* how long the model follows a stream of more than BatchSize lines, in ticks
MaxBurstTicks == 1
\* lines of the short streams of the model
MaxBatchLines == 2

\* "--------- beginning of"
BeginningOf ==
    <<"-", "-", "-", "-", "-", "-", "-", "-", "-", " ",
      "b", "e", "g", "i", "n", "n", "i", "n", "g", " ", "o", "f">>

\* str::contains
contains(text, pat) ==
    \E i \in 1..(Len(text) - Len(pat) + 1) : SubSeq(text, i, i + Len(pat) - 1) = pat

\* the test of the reader: a line that is not skipped
Pushed(text) == ~(trim(text) = <<>> \/ contains(trim(text), BeginningOf))

\* lines adb logcat -v time writes: a message, a message with blanks around
\* it, an empty line, a blank line, a buffer header, a header after other
\* text, and a line that only starts like a header
BatchLines ==
    {<<"E", "/", "a">>, <<" ", "I", "/", "b", " ">>, <<>>, <<" ", "\t">>,
     BeginningOf \o <<" ", "m", "a", "i", "n">>,
     <<"x", " ">> \o BeginningOf,
     <<"-", "-", "-", " ", "b", "e", "g", "i", "n">>}

\* a stream of more than BatchSize messages
LongStream == [i \in 1..(BatchSize + 1) |-> IF i % 2 = 1 THEN <<"E", "/", "a">> ELSE <<"W">>]

BatchStreams == SeqsUpTo(BatchLines, MaxBatchLines) \cup {LongStream}

\* the ticks the model follows the stream for
StreamTicks ==
    IF Len(lg_read) + Len(lg_todo) > MaxBatchLines THEN MaxBurstTicks ELSE MaxBatchTicks

\* time passes while the reader waits for a line or between two steps
BatchTimePasses ==
    /\ lg_pc = "running"
    /\ lg_now < StreamTicks
    /\ lg_now' = lg_now + 1
    /\ UNCHANGED <<lg_pc, lg_todo, lg_read, batch, last_emit, lg_batches, nonBatchVars>>

\* one Ok(text) of for line in reader.lines(): skipped, or pushed and then
\* emitted with the batch when batch.len() >= 50 or 100 ms have passed since
\* last_emit
logcat_batch_line ==
    /\ lg_pc = "running"
    /\ lg_todo # <<>>
    /\ LET text == Head(lg_todo)
           pushed == Append(batch, text)
       IN  /\ lg_todo' = Tail(lg_todo)
           /\ lg_read' = Append(lg_read, text)
           /\ IF ~Pushed(text)
              THEN UNCHANGED <<batch, last_emit, lg_batches>>
              ELSE IF Len(pushed) >= BatchSize \/ lg_now - last_emit >= FlushTicks
              THEN /\ lg_batches' = Append(lg_batches, pushed)
                   /\ batch' = <<>>
                   /\ last_emit' = lg_now
              ELSE /\ batch' = pushed
                   /\ UNCHANGED <<last_emit, lg_batches>>
    /\ UNCHANGED <<lg_pc, lg_now, nonBatchVars>>

\* the end of the loop with the final flush left out
logcat_batch_end_no_flush ==
    /\ lg_pc = "running"
    /\ lg_pc' = "done"
    /\ batch' = <<>>
    /\ UNCHANGED <<lg_todo, lg_read, last_emit, lg_now, lg_batches, nonBatchVars>>

\* the lines end (the child exited or was killed; what it had not written is
\* never read) or a line fails to decode (Err(_) => break); then the final
\* flush: if !batch.is_empty() { emit(.. lines: batch) }
logcat_batch_end ==
    /\ lg_pc = "running"
    /\ lg_pc' = "done"
    /\ lg_batches' = IF batch # <<>> THEN Append(lg_batches, batch) ELSE lg_batches
    /\ batch' = <<>>
    /\ UNCHANGED <<lg_todo, lg_read, last_emit, lg_now, nonBatchVars>>

\* the reader thread has just been started on a stream
InitBatch ==
    /\ lg_pc = "running"
    /\ lg_todo \in BatchStreams
    /\ lg_read = <<>>
    /\ batch = <<>>
    /\ last_emit = 0
    /\ lg_now = 0
    /\ lg_batches = <<>>
    /\ NonBatchIdle

NextBatch ==
    \/ BatchTimePasses
    \/ logcat_batch_line
    \/ logcat_batch_end

SpecBatch == InitBatch /\ [][NextBatch]_vars

\* C35: for one logcat stream, the lines of all emitted batches in emission
\* order (followed, while the stream is open, by the lines still buffered)
\* are exactly the lines read from the child that are non-empty after
\* trimming and do not contain the beginning-of marker, each once and in
\* arrival order; when the stream has ended nothing is left buffered (final
\* flush); no emitted batch is empty and none holds more than 50 lines.
C35_BatchesAreTheLines ==
    /\ Flatten(lg_batches) \o batch = SelectSeq(lg_read, Pushed)
    /\ lg_pc = "done" => Flatten(lg_batches) = SelectSeq(lg_read, Pushed)
    /\ \A i \in DOMAIN lg_batches :
          Len(lg_batches[i]) >= 1 /\ Len(lg_batches[i]) <= BatchSize

\* a stream of 51 messages in a burst: one batch of 50 and the last line in
\* the final flush
C35_Witness ==
    /\ lg_pc = "done"
    /\ Len(lg_batches) = 2
    /\ Len(lg_batches[1]) = BatchSize
    /\ lg_batches[2] = <<LongStream[BatchSize + 1]>>

\* C36: while a logcat stream is open, no accepted line stays buffered and
\* unemitted for longer than 100 ms after the last flush, also when no
\* further line arrives from the child.
C36_FlushWithin100ms ==
    (lg_pc = "running" /\ batch # <<>>) => lg_now - last_emit <= FlushTicks

(***************************************************************************)
(* adb/tracker.rs: the order of the device-changed events of the reader    *)
(* and the heartbeat.  Each worker calls list_devices and then takes the   *)
(* snapshot mutex; the listing is made outside the mutex.                  *)
(***************************************************************************)
\* a worker emits the list it obtained
EmitsListed(w) ==
    /\ wpc[w] = "compare"
    /\ device_events' = Append(device_events, [by |-> w, devices |-> listed[w]])

\* C37: device-changed events are emitted in the order in which their
\* listings were taken.  While the connected devices have changed at most
\* once, a list equal to the present device set was listed after every list
\* that differs from it: an event carrying the present device set is never
\* followed by an event carrying an older list.
C37_EmitInListingOrder ==
    [][\A w \in Workers :
         (EmitsListed(w) /\ world_changes <= 1 /\ device_events # <<>> /\ LastEmitted = world)
            => listed[w] = world]_vars

(***************************************************************************)
(* commands/logcat.rs: the reader threads of a device whose stream is      *)
(* restarted.  start_logcat_stream kills the replaced child and does not   *)
(* wait for its reader thread, which reads on until the pipe is drained.   *)
(***************************************************************************)
\* event j comes from the reader of a child that was replaced by the child
\* whose reader emitted the earlier event i
OldAfterNew(i, j) ==
    /\ i < j
    /\ logcat_events[i].dev = logcat_events[j].dev
    /\ logcat_events[j].child < logcat_events[i].child

\* C38: when a logcat stream is restarted for a device, the reader of the
\* replaced child emits nothing on logcat-line-<device> after the new
\* stream's reader has emitted its first batch (children are numbered in the
\* order they were spawned).
C38_OldReaderSilent ==
    \A i, j \in DOMAIN logcat_events : ~OldAfterNew(i, j)

(***************************************************************************)
(* services/scrcpy.rs: send_control_event called from several threads (the *)
(* control commands of commands/scrcpy.rs are synchronous commands and run *)
(* on whichever thread invokes them).  write_all hands the message to the  *)
(* socket in one or more write calls; the registry guard and the socket    *)
(* guard are dropped when the function returns.                            *)
(***************************************************************************)
\* send_control_event calls the model follows
MaxSends == 2

\* the data vector scrcpy_key builds: action, keycode, repeat 0, metastate
key_data(action, keycode, metastate) ==
    <<action>> \o to_be_bytes(keycode, 4) \o to_be_bytes(0, 4) \o to_be_bytes(metastate, 4)

\* the data vector scrcpy_text builds: the length of the text as u32, the text
text_data(text_bytes) == to_be_bytes(Len(text_bytes), 4) \o text_bytes

\* the messages of the model: KEYCODE_ENTER down, and the text "hi"
SendMessages ==
    {control_message(0, key_data(0, 66, 0)), control_message(1, text_data(<<104, 105>>))}

SendHolder(c) == [kind |-> "send", id |-> c]

\* the calls made so far
SendsMade == Len(send_log) + Cardinality({c \in Senders : send_call[c].pc = "write"})

\* send_control_event entered without taking the registry mutex
send_control_event_enter_unlocked(c, device_id, message) ==
    /\ send_call[c].pc \in {"idle", "done"}
    /\ SendsMade < MaxSends
    /\ send_call' = [send_call EXCEPT ![c] = [pc |-> "write", dev |-> device_id,
                                              message |-> message, written |-> 0,
                                              result |-> "none"]]
    /\ UNCHANGED <<sessions_lock, wire, send_log, nonSendLockVars>>

\* let sessions = SCRCPY_SESSIONS.lock().unwrap(): the call goes on once it
\* holds the mutex; the message is type byte + data
send_control_event_enter(c, device_id, message) ==
    /\ send_call[c].pc \in {"idle", "done"}
    /\ SendsMade < MaxSends
    /\ sessions_lock = Free
    /\ sessions_lock' = SendHolder(c)
    /\ send_call' = [send_call EXCEPT ![c] = [pc |-> "write", dev |-> device_id,
                                              message |-> message, written |-> 0,
                                              result |-> "none"]]
    /\ UNCHANGED <<wire, send_log, nonSendLockVars>>

\* the call returns: both guards are dropped
SendReturns(c, result, written) ==
    /\ send_call' = [send_call EXCEPT ![c].pc = "done", ![c].result = result,
                                      ![c].written = written]
    /\ send_log' = Append(send_log, [by |-> c, dev |-> send_call[c].dev,
                                     session |-> sessions[send_call[c].dev],
                                     message |-> send_call[c].message,
                                     written |-> written,
                                     result |-> result])
    /\ sessions_lock' = IF sessions_lock = SendHolder(c) THEN Free ELSE sessions_lock

\* without a session nothing is written and the call returns Ok; with one,
\* write_all: a write call takes some of the remaining bytes, the call
\* returns Ok after the last of them (and flush), and an error of a write
\* call returns CONTROL_WRITE_FAILED with what was taken left on the socket
send_control_event_write_all(c) ==
    /\ send_call[c].pc = "write"
    /\ LET s    == sessions[send_call[c].dev]
           f    == send_call[c]
           left == Len(f.message) - f.written
       IN  \/ /\ s = NoSession
              /\ SendReturns(c, "Ok", 0)
              /\ UNCHANGED wire
           \/ /\ s # NoSession
              /\ \E n \in 1..left :
                    /\ wire' = [wire EXCEPT ![s] =
                                   @ \o SubSeq(f.message, f.written + 1, f.written + n)]
                    /\ IF n = left
                       THEN SendReturns(c, "Ok", Len(f.message))
                       ELSE /\ send_call' = [send_call EXCEPT ![c].written = @ + n]
                            /\ UNCHANGED <<send_log, sessions_lock>>
           \/ /\ s # NoSession
              /\ SendReturns(c, "CONTROL_WRITE_FAILED", f.written)
              /\ UNCHANGED wire
    /\ UNCHANGED nonSendLockVars

\* a session on d1, none on d2, no control message sent yet
InitSend ==
    /\ InitReader({<<>>})
    /\ AppRunning /\ RunnerIdle /\ TrackerIdle /\ LogcatIdle /\ ServiceIdle /\ OtherIdle

NextSend ==
    \/ \E c \in Senders, d \in Devices, m \in SendMessages : send_control_event_enter(c, d, m)
    \/ \E c \in Senders : send_control_event_write_all(c)

SpecSend == InitSend /\ [][NextSend]_vars

\* the length of the message that starts a byte sequence, from its type byte
\* (0: key, 14 bytes; 1: text, 5 bytes and the text; 2: touch, 32 bytes;
\* 3: scroll, 25 bytes); None when the type or the length field is missing
MessageLength(bytes) ==
    CASE bytes[1] = 0 -> 14
      [] bytes[1] = 1 -> IF Len(bytes) >= 5 THEN 5 + from_be(SubSeq(bytes, 2, 5)) ELSE None
      [] bytes[1] = 2 -> 32
      [] bytes[1] = 3 -> 25
      [] OTHER -> None

\* the bytes are whole control messages, one after another
RECURSIVE WholeMessages(_)
WholeMessages(bytes) ==
    \/ bytes = <<>>
    \/ LET n == MessageLength(bytes)
       IN  /\ n # None
           /\ n <= Len(bytes)
           /\ WholeMessages(SubSeq(bytes, n + 1, Len(bytes)))

\* what the calls that have returned left on the control socket of session s
RECURSIVE LoggedBytes(_, _)
LoggedBytes(log, s) ==
    IF log = <<>> THEN <<>>
    ELSE (IF Head(log).session = s THEN SubSeq(Head(log).message, 1, Head(log).written)
          ELSE <<>>) \o LoggedBytes(Tail(log), s)

Writing == { c \in Senders : send_call[c].pc = "write" }

\* a call without a session writes nothing and returns success
NoSessionNoBytes ==
    \A i \in DOMAIN send_log :
        send_log[i].session = NoSession =>
            send_log[i].written = 0 /\ send_log[i].result = "Ok"

\* C39 (as stated): control messages sent concurrently to the same device
\* are written one after another without interleaving: whenever no write is
\* in progress, the byte stream on the control socket is a concatenation of
\* whole messages, each its 1-byte type followed by its complete payload; a
\* control message for a device without a session writes nothing and returns
\* success.
C39_WholeMessages ==
    /\ Writing = {} => \A s \in Sessions : WholeMessages(wire[s])
    /\ NoSessionNoBytes

\* C39 (amended): control messages sent concurrently to the same device are
\* written one after another without interleaving: at most one call writes at
\* a time, and the byte stream on the control socket is the concatenation, in
\* the order the calls returned, of the whole message of every call that
\* returned success and of the part that was written of every call that
\* returned CONTROL_WRITE_FAILED (a proper prefix of its message), followed
\* by what the call in progress has written; a control message for a device
\* without a session writes nothing and returns success.
C39_NoInterleaving ==
    /\ Cardinality(Writing) <= 1
    /\ \A s \in Sessions :
          wire[s] = LoggedBytes(send_log, s)
                       \o Flatten([i \in 1..Cardinality(Writing) |->
                              LET c == CHOOSE w \in Writing : TRUE
                              IN  IF sessions[send_call[c].dev] = s
                                  THEN SubSeq(send_call[c].message, 1, send_call[c].written)
                                  ELSE <<>>])
    /\ \A i \in DOMAIN send_log :
          LET e == send_log[i]
          IN  /\ (e.result = "Ok" /\ e.session # NoSession) => e.written = Len(e.message)
              /\ e.result = "CONTROL_WRITE_FAILED" => e.written < Len(e.message)
    /\ NoSessionNoBytes

\* two threads sent different messages to d1: both are on the socket, whole,
\* one after the other
C39_Witness ==
    /\ Len(send_log) = 2
    /\ send_log[1].by # send_log[2].by
    /\ send_log[1].result = "Ok" /\ send_log[2].result = "Ok"
    /\ send_log[1].message # send_log[2].message
    /\ wire[1] = send_log[1].message \o send_log[2].message

(***************************************************************************)
(* services/scrcpy.rs: what extract_next_nal keeps.  SpecConserve: the     *)
(* reader of SpecNal on a socket that carries start codes, zero bytes and   *)
(* other bytes in any order, with or without bytes ahead of the first      *)
(* start code, received in chunks of any size.                             *)
(***************************************************************************)
MaxPieces == 5

\* what the byte stream is put together from
Pieces == {<<0, 0, 1>>, <<0, 0, 0, 1>>, <<0>>, <<2>>}

InitConserve == InitReader(SeqsUpTo(Pieces, MaxPieces)) /\ NonScrcpyIdle

SpecConserve == InitConserve /\ [][NextNal]_vars

\* the input bytes session s has received so far
Received(s) ==
    LET sent == Flatten(units[s])
    IN  SubSeq(sent, 1, Len(sent) - Len(socket[s]))

\* the units extract_next_nal has returned so far, concatenated; the last
\* one may not have been emitted yet
ReturnedBytes(s) ==
    Flatten(NalsOf(s)) \o (IF rpc[s] = "emit" THEN nal_data[s] ELSE <<>>)

\* where the first start code (00 00 01 or 00 00 00 01) of data begins,
\* counted from 0
FirstStartCode(data) ==
    LET n == Len(data)
        hits == { i \in 0..(n - 3) :
                    /\ data[i + 1] = 0
                    /\ data[i + 2] = 0
                    /\ \/ data[i + 3] = 1
                       \/ (n > i + 3 /\ data[i + 3] = 0 /\ data[i + 4] = 1) }
    IN  IF hits = {} THEN None ELSE Min(hits)

BeginsWithStartCode(nal) ==
    /\ Len(nal) >= 3
    /\ nal[1] = 0
    /\ nal[2] = 0
    /\ nal[3] = 1 \/ (Len(nal) >= 4 /\ nal[3] = 0 /\ nal[4] = 1)

ReturnedBeginWithStartCode(s) ==
    /\ \A i \in 1..Len(NalsOf(s)) : BeginsWithStartCode(NalsOf(s)[i])
    /\ rpc[s] = "emit" => BeginsWithStartCode(nal_data[s])

\* the extraction loop has run on every chunk appended so far
Extracted(s) == rpc[s] \in {"check", "read"}

\* C40 (as stated): after chunk appends and the extract_next_nal calls on
\* them, the units returned so far followed by the accumulator are the input
\* received so far from its first start code onward, and every returned unit
\* begins with a start code.
C40_FromFirstStartCode ==
    \A s \in Sessions :
        LET r == Received(s)
            f == FirstStartCode(r)
        IN  (Extracted(s) /\ f # None) =>
                /\ ReturnedBytes(s) \o nal_buffer[s] = Slice(r, f, Len(r))
                /\ ReturnedBeginWithStartCode(s)

\* C40 (amended): at every moment the units returned so far followed by the
\* accumulator are the input received so far from some position k onward,
\* where k is 0 (nothing dropped yet) or the position of the first start
\* code; k is that position once a unit has been returned, and after the
\* extract_next_nal calls on an input that has at least one byte behind its
\* first start code; every returned unit begins with a start code.  A start
\* code in the last three bytes received is not seen yet, and the bytes
\* ahead of it stay in the accumulator until more input arrives.
C40_FromDrainPoint ==
    \A s \in Sessions :
        LET r == Received(s)
            f == FirstStartCode(r)
            kept == ReturnedBytes(s) \o nal_buffer[s]
        IN  /\ \/ kept = r
               \/ f # None /\ kept = Slice(r, f, Len(r))
            /\ (f # None /\ (ReturnedBytes(s) # <<>> \/ (Extracted(s) /\ Len(r) > f + 3))) =>
                  kept = Slice(r, f, Len(r))
            /\ ReturnedBeginWithStartCode(s)

\* a byte ahead of the first start code was dropped, a unit was returned and
\* emitted, and the rest of the input is in the accumulator
C40_Witness ==
    /\ Extracted(1)
    /\ socket[1] = <<>>
    /\ Flatten(units[1]) = <<2, 0, 0, 1, 2, 0, 0, 0, 1, 2>>
    /\ NalsOf(1) = <<<<0, 0, 1, 2>>>>
    /\ nal_buffer[1] = <<0, 0, 0, 1, 2>>

====
